---- MODULE Spec2Model ----
(***************************************************************************)
(* A model of the term-symbol engine of the `quantum` package:             *)
(*   quantum/orbitals.py      spin-orbital classes and their validation    *)
(*   quantum/term_symbols.py  subshell enumeration, TermTable, cleaning    *)
(*                            and the table product                        *)
(*                                                                         *)
(* Python objects live on a heap.  A term table object holds a reference   *)
(* (`table`) to a numpy array; arrays live in `mem`, so that aliasing of   *)
(* two tables on one array is expressible.  Fractions k/2 are stored as    *)
(* the integer k (twice the value): an orbital's `spin` is 1 or -1.        *)
(***************************************************************************)
EXTENDS Integers, Sequences, FiniteSets, TLC

(* ------------------------------ bounds --------------------------------- *)
\* largest angular momentum l a session asks for
MaxL == 1
\* most calls a session makes that consume its generator
MaxCalls == 2
\* most subshells a session passes to multiple_subshell_terms
MaxSubshells == 2
\* most open places (electrons or holes, whichever are fewer, summed over the
\* subshells) of a list of subshells a session passes
MaxOpen == 3
\* largest max_mult and max_am of a table a session constructs directly
MaxTableMult == 4
MaxTableAm == 1
\* largest multiplicity and angular momentum a session asks of TermSymbol
MaxTermMult == 4
MaxTermAm == 2

VARIABLES
    given,  \* the subshells the session's tables were built from
    tabs,   \* heap of term table objects, in order of creation
    mem,    \* heap of numpy arrays; tabs[i].table is an index into mem
    orbs,   \* heap of spin-orbital objects, in order of creation
    gens,   \* heap of generator objects, in order of creation
    out,    \* what the calls that consume a generator returned, in order
    last    \* the last call made: its name, arguments, result and error

vars == <<given, tabs, mem, orbs, gens, out, last>>

(* --------------------------- Python values ----------------------------- *)
PyInt(v) == [type |-> "int", val |-> v]
PyStr(s) == [type |-> "str", val |-> s]
\* the Fraction twice/2
PyFrac(twice) == [type |-> "Fraction", val |-> twice]
PyNone == [type |-> "NoneType", val |-> 0]
\* a reference to table object i of the heap
PyTab(i) == [type |-> "TermTable", val |-> i]

abs(x) == IF x < 0 THEN -x ELSE x
min(x, y) == IF x <= y THEN x ELSE y

\* sum(range(lo, hi))
RECURSIVE SumRange(_, _)
SumRange(lo, hi) == IF lo >= hi THEN 0 ELSE lo + SumRange(lo + 1, hi)

\* str.index / `in` for a one-letter code: 0-based position, -1 when absent
RECURSIVE IndexFrom(_, _, _)
IndexFrom(symbols, c, i) ==
    IF i > Len(symbols) THEN -1
    ELSE IF symbols[i] = c THEN i - 1
    ELSE IndexFrom(symbols, c, i + 1)
index(symbols, c) == IndexFrom(symbols, c, 1)

(* ---------------------------- orbitals.py ------------------------------ *)
ATOMIC_AM_SYMBOLS ==
    <<"s", "p", "d", "f", "g", "h", "i", "k", "l", "m", "n",
      "o", "q", "r", "t", "u", "v", "w", "x", "y", "z">>
\* the Greek letters are spelled out; the last symbol is the Latin letter o
DIATOMIC_AM_SYMBOLS ==
    <<"sigma", "pi", "delta", "phi", "gamma", "eta", "iota", "kappa",
      "mu", "nu", "o">>

\* an object is a function from attribute names to values
NewObject(cls) == [a \in {"__class__"} |-> cls]
SetAttr(obj, name, v) ==
    [a \in DOMAIN obj \cup {name} |-> IF a = name THEN v ELSE obj[a]]
HasAttr(obj, name) == name \in DOMAIN obj

Raise(self, msg) == [err |-> msg, self |-> self]
Return(self) == [err |-> "", self |-> self]

\* spin == 1 or spin == Frac(1 / 2) or spin == 'alpha'
IsAlpha(spin) ==
    \/ spin.type = "int" /\ spin.val = 1
    \/ spin.type = "Fraction" /\ spin.val = 1
    \/ spin.type = "str" /\ spin.val = "alpha"
\* spin == -1 or spin == Frac(-1 / 2) or spin == 'beta'
IsBeta(spin) ==
    \/ spin.type = "int" /\ spin.val = -1
    \/ spin.type = "Fraction" /\ spin.val = -1
    \/ spin.type = "str" /\ spin.val = "beta"

\* the projection test of Orbital.__init__: `ml > l` (ml is an int here)
MlRejected(l, ml) == ml > l

\* Orbital.__init__(self, n, l, ml, spin), n, l, ml ints
Orbital_init(self, n, l, ml, spin) ==
    IF n < 1 THEN Raise(self, "Shells are integers starting at 1")
    ELSE IF l < 0 THEN Raise(self, "Orbitals are ints >=0 or the appropriate string")
    ELSE IF MlRejected(l, ml) THEN Raise(self, "Angular momentum (ml) is a positive integer such that -l <= ml <= l")
    ELSE IF ~(IsAlpha(spin) \/ IsBeta(spin)) THEN Raise(self, "Invalid spin")
    ELSE LET s1 == SetAttr(self, "spin", IF IsAlpha(spin) THEN 1 ELSE -1)
             s2 == SetAttr(s1, "n", n)
             s3 == SetAttr(s2, "l", l)
         IN  Return(SetAttr(s3, "ml", ml))

\* AtomicSpinOrbital.__init__(self, n, l, ml, spin); l is a PyInt or a PyStr
AtomicSpinOrbital_init(self, n, l, ml, spin) ==
    IF l.type = "str" /\ index(ATOMIC_AM_SYMBOLS, l.val) < 0
    THEN Raise(self, "Invalid orbital")
    ELSE LET lv == IF l.type = "str" THEN index(ATOMIC_AM_SYMBOLS, l.val) ELSE l.val
         IN  IF n - lv < 1 THEN Raise(self, "Invalid subshell")
             ELSE LET r == Orbital_init(self, n, lv, ml, spin)
                  IN  IF r.err # "" THEN r
                      ELSE Return(SetAttr(r.self, "orb_symbol", ATOMIC_AM_SYMBOLS[lv + 1]))

\* a projection test that only bounds |ml|
DiatomicMlAbove(l, ml) == abs(ml) > l

\* the projection test of DiatomicSpinOrbital.__init__: `not abs(ml) == l`
DiatomicMlRejected(l, ml) == ~(abs(ml) = l)

\* DiatomicSpinOrbital.__init__(self, n, l, ml, spin)
DiatomicSpinOrbital_init(self, n, l, ml, spin) ==
    IF l.type = "str" /\ index(DIATOMIC_AM_SYMBOLS, l.val) < 0
                      /\ index(ATOMIC_AM_SYMBOLS, l.val) < 0
    THEN Raise(self, "Invalid orbital")
    ELSE LET lv == IF l.type # "str" THEN l.val
                   ELSE IF index(DIATOMIC_AM_SYMBOLS, l.val) >= 0
                        THEN index(DIATOMIC_AM_SYMBOLS, l.val)
                        ELSE index(ATOMIC_AM_SYMBOLS, l.val)
             r == Orbital_init(self, n, lv, ml, spin)
         IN  IF r.err # "" THEN r
             ELSE IF DiatomicMlRejected(lv, ml)
                  THEN Raise(r.self, "Diatomic orbitals may only have ml = +- l")
                  ELSE Return(SetAttr(r.self, "orb_symbol", DIATOMIC_AM_SYMBOLS[lv + 1]))

\* the constructor calls  AtomicSpinOrbital(n, l, ml, spin)  and
\* DiatomicSpinOrbital(n, l, ml, spin)
AtomicSpinOrbital(n, l, ml, spin) ==
    AtomicSpinOrbital_init(NewObject("AtomicSpinOrbital"), n, l, ml, spin)
DiatomicSpinOrbital(n, l, ml, spin) ==
    DiatomicSpinOrbital_init(NewObject("DiatomicSpinOrbital"), n, l, ml, spin)

(* -------------------- term_symbols.py: enumeration --------------------- *)
\* spin_iterator(): Frac(1, 2) then -Frac(1, 2)
spin_iterator == <<PyFrac(1), PyFrac(-1)>>

\* a range that counts upwards, from -l to l
RangeUp(l) == [i \in 1..(IF l >= 0 THEN 2 * l + 1 ELSE 0) |-> i - 1 - l]

\* range(l, -l - 1, -1)
RangeDown(l) == [i \in 1..(IF l >= 0 THEN 2 * l + 1 ELSE 0) |-> l - (i - 1)]

\* itertools.product of two sequences
product(A, B) ==
    [k \in 1..(Len(A) * Len(B)) |->
        <<A[((k - 1) \div Len(B)) + 1], B[((k - 1) % Len(B)) + 1]>>]

\* atomic_spinorbitals_iterator(shell, l): the constructor results, in order
atomic_spinorbitals_iterator(shell, l) ==
    LET ps == product(RangeDown(l), spin_iterator)
    IN  [k \in 1..Len(ps) |-> AtomicSpinOrbital(shell, PyInt(l), ps[k][1], ps[k][2])]

\* projections that are not narrowed to one for l = 0
DiatomicMlsBoth(l) == <<l, -l>>

\* mls = [l, -l] if l > 0 else [0]
DiatomicMls(l) == IF l > 0 THEN <<l, -l>> ELSE <<0>>

\* diatomic_spinorbitals_iterator(shell, l)
diatomic_spinorbitals_iterator(shell, l) ==
    LET mls == DiatomicMls(l)
        ps == product(mls, spin_iterator)
    IN  [k \in 1..Len(ps) |-> DiatomicSpinOrbital(shell, PyInt(l), ps[k][1], ps[k][2])]

\* the first exception an iterator raises when it is consumed ("" if none)
RECURSIVE IterErrFrom(_, _)
IterErrFrom(it, k) ==
    IF k > Len(it) THEN ""
    ELSE IF it[k].err # "" THEN it[k].err
    ELSE IterErrFrom(it, k + 1)
IterErr(it) == IterErrFrom(it, 1)
\* the objects an iterator yields
IterObjs(it) == [k \in 1..Len(it) |-> it[k].self]

\* the runs of k neighbours of a pool
windows(pool, k) ==
    [i \in 1..(IF Len(pool) >= k THEN Len(pool) - k + 1 ELSE 0) |->
        SubSeq(pool, i, i + k - 1)]

\* itertools.combinations(pool, k), in its (lexicographic) order
RECURSIVE combinations(_, _)
combinations(pool, k) ==
    IF k = 0 THEN << <<>> >>
    ELSE IF Len(pool) < k THEN <<>>
    ELSE LET rest == combinations(Tail(pool), k - 1)
         IN  [i \in 1..Len(rest) |-> <<Head(pool)>> \o rest[i]]
             \o combinations(Tail(pool), k)

\* occupy(iterator, e_num) over the yielded objects
occupy(pool, e_num) == combinations(pool, e_num)

\* calc_vals(orbs): (sum of ml, sum of spin); spin is in halves
RECURSIVE calc_vals(_)
calc_vals(os) ==
    IF Len(os) = 0 THEN [am |-> 0, spin |-> 0]
    ELSE LET r == calc_vals(Tail(os))
         IN  [am |-> Head(os)["ml"] + r.am, spin |-> Head(os)["spin"] + r.spin]

(* ---------------------- numpy arrays (2-D, int) ------------------------ *)
\* np.zeros((h, w), dtype=int): a sequence of h rows of w cells
zeros(h, w) == [i \in 1..h |-> [j \in 1..w |-> 0]]
Height(arr) == Len(arr)
Width(arr) == IF Len(arr) = 0 THEN 0 ELSE Len(arr[1])

\* numpy's integer index k on an axis of length n: the 1-based position it
\* addresses (a negative index counts from the end), 0 for an IndexError
NpIndex(k, n) ==
    IF k >= 0 /\ k < n THEN k + 1
    ELSE IF k < 0 /\ k >= -n THEN k + n + 1
    ELSE 0

ArrOk(arr) == [err |-> "", arr |-> arr]
ArrRaise(arr) == [err |-> "IndexError", arr |-> arr]

\* table[r][c], and the statement table[r][c] = v: numpy first indexes the
\* row, then the column
CellIndexError(arr, r, c) ==
    NpIndex(r, Height(arr)) = 0 \/ NpIndex(c, Width(arr)) = 0
ArrGet(arr, r, c) == arr[NpIndex(r, Height(arr))][NpIndex(c, Width(arr))]
ArrPut(arr, r, c, v) ==
    LET i == NpIndex(r, Height(arr))
        j == NpIndex(c, Width(arr))
    IN  IF i = 0 \/ j = 0 THEN ArrRaise(arr)
        ELSE ArrOk([arr EXCEPT ![i][j] = v])
\* table[r][c] += v
ArrAdd(arr, r, c, v) ==
    LET i == NpIndex(r, Height(arr))
        j == NpIndex(c, Width(arr))
    IN  IF i = 0 \/ j = 0 THEN ArrRaise(arr)
        ELSE ArrOk([arr EXCEPT ![i][j] = @ + v])

(* ------------------- term_symbols.py: TermTable ------------------------ *)
\* a row of multiplicity mult that is right for odd multiplicities only
HalfOf(mult) == mult \div 2

\* the row of multiplicity mult: (mult - 1) // 2
RowOf(mult) == (mult - 1) \div 2

\* TermTable.__init__(self, max_mult, max_am, clean): the object's fields
\* (its `table` reference is set when the array is allocated) and the array
TermTable_init(cls, max_mult, max_am, clean) ==
    [obj |-> [cls |-> cls,
              max_am |-> max_am,
              width |-> max_am + 1,
              max_mult |-> max_mult,
              min_mult |-> ((max_mult + 1) % 2) + 1,
              height |-> (max_mult + 1) \div 2,
              table |-> 0,
              orbital_type |-> "None",
              clean |-> clean],
     arr |-> zeros((max_mult + 1) \div 2, max_am + 1)]

\* AtomicTermTable.__init__(self, max_mult, max_am, clean=False)
AtomicTermTable_init(max_mult, max_am, clean) ==
    LET t == TermTable_init("AtomicTermTable", max_mult, max_am, clean)
    IN  [t EXCEPT !.obj.orbital_type = "atomic"]

\* DiatomicTermTable.__init__: passes clean=False to the base class
DiatomicTermTable_init(max_mult, max_am, clean) ==
    LET t == TermTable_init("DiatomicTermTable", max_mult, max_am, FALSE)
    IN  [t EXCEPT !.obj.orbital_type = "diatomic"]

\* TermTable.get / set / add / increment on the table's array
get(arr, mult, am) == ArrGet(arr, RowOf(mult), am)
set(arr, mult, am, val) == ArrPut(arr, RowOf(mult), am, val)
add(arr, mult, am, val) == ArrAdd(arr, RowOf(mult), am, val)
increment(arr, mult, am) == ArrAdd(arr, RowOf(mult), am, 1)

(* ------------------------------ cleaning ------------------------------- *)
\* a subtraction from every column of the rows up to i
SubRows(arr, i, j, count) ==
    [r \in 1..Height(arr) |-> [c \in 1..Width(arr) |->
        IF r <= i + 1 THEN arr[r][c] - count ELSE arr[r][c]]]

\* a subtraction from every row of column j
SubWholeCol(arr, i, j, count) ==
    [r \in 1..Height(arr) |-> [c \in 1..Width(arr) |->
        IF c = j + 1 THEN arr[r][c] - count ELSE arr[r][c]]]

\* cleaned.table[:i + 1, :j + 1] -= count   (i, j 0-based)
SubRect(arr, i, j, count) ==
    [r \in 1..Height(arr) |-> [c \in 1..Width(arr) |->
        IF r <= i + 1 /\ c <= j + 1 THEN arr[r][c] - count ELSE arr[r][c]]]

\* cleaned.table[:i + 1, j] -= count
SubCol(arr, i, j, count) ==
    [r \in 1..Height(arr) |-> [c \in 1..Width(arr) |->
        IF r <= i + 1 /\ c = j + 1 THEN arr[r][c] - count ELSE arr[r][c]]]

\* a loop body that subtracts along row i only
RowCleanCell(arr, i, j) ==
    [arr EXCEPT ![i + 1] = [c \in 1..Width(arr) |->
        IF c < j + 1 THEN arr[i + 1][c] - arr[i + 1][j + 1] ELSE arr[i + 1][c]]]

\* the body of AtomicTermTable.cleaned's loops at cell (i, j)
AtomicCleanCell(arr, i, j) ==
    LET count == arr[i + 1][j + 1]
    IN  [SubRect(arr, i, j, count) EXCEPT ![i + 1][j + 1] = count]

\* the body of DiatomicTermTable.cleaned's loops at cell (i, j)
DiatomicCleanCell(arr, i, j) ==
    LET count == arr[i + 1][j + 1]
    IN  [SubCol(arr, i, j, count) EXCEPT ![i + 1][j + 1] = count]

\* for i in reversed(range(height)): for j in reversed(range(width)): ...
\* over the cells numbered hi down to lo (cell n is row n \div width, column
\* n % width); the range is split in halves to bound the evaluation depth
RECURSIVE CleanLoop(_, _, _, _)
CleanLoop(cls, arr, lo, hi) ==
    IF lo > hi THEN arr
    ELSE IF lo = hi
    THEN IF cls = "AtomicTermTable"
         THEN AtomicCleanCell(arr, lo \div Width(arr), lo % Width(arr))
         ELSE DiatomicCleanCell(arr, lo \div Width(arr), lo % Width(arr))
    ELSE LET mid == (lo + hi) \div 2
         IN  CleanLoop(cls, CleanLoop(cls, arr, mid + 1, hi), lo, mid)

\* the loops run a second time over their own result
CleanedTwice(cls, arr) ==
    CleanLoop(cls, CleanLoop(cls, arr, 0, Height(arr) * Width(arr) - 1),
              0, Height(arr) * Width(arr) - 1)

\* the array of a table of class cls after the loops of cleaned()
CleanedArray(cls, arr) == CleanLoop(cls, arr, 0, Height(arr) * Width(arr) - 1)

\* copy.copy: a new object that shares the array of the original
shallowcopy(ts, ms, i) ==
    [tabs |-> Append(ts, ts[i]), mem |-> ms]

\* copy.deepcopy(self): a new object with its own copy of the array
deepcopy(ts, ms, i) ==
    [tabs |-> Append(ts, [ts[i] EXCEPT !.table = Len(ms) + 1]),
     mem |-> Append(ms, ms[ts[i].table])]

\* AtomicTermTable.cleaned / DiatomicTermTable.cleaned on table object i of
\* the heap (ts, ms): the heap afterwards and the index of the returned table
cleaned(ts, ms, i) ==
    LET h == deepcopy(ts, ms, i)
        c == Len(h.tabs)
        a == h.tabs[c].table
        arr == h.mem[a]
    IN  [tabs |-> [h.tabs EXCEPT ![c].clean = TRUE],
         mem |-> [h.mem EXCEPT ![a] = CleanedArray(ts[i].cls, arr)],
         res |-> c]

(* ---------------------------- subshell_terms --------------------------- *)
TabRaise(msg) == [err |-> msg, obj |-> <<>>, arr |-> <<>>]
TabReturn(obj, arr) == [err |-> "", obj |-> obj, arr |-> arr]

\* a tally test that forgets the sign of the spin
SkippedAm(v) == v.am < 0

\* the tally test of subshell_terms: `if am < 0 or spin < 0: continue`
Skipped(v) == v.am < 0 \/ v.spin < 0

\* the body of the loop of subshell_terms for one occupation:
\*     t.increment(int(2 * abs(spin) + 1), abs(am))   unless skipped
\* (spin is held in halves, so int(2 * abs(spin) + 1) is abs(spin) + 1)
TallyBody(arr, comb) ==
    LET v == calc_vals(comb)
    IN  IF Skipped(v) THEN ArrOk(arr)
        ELSE increment(arr, abs(v.spin) + 1, abs(v.am))

\* for comb in occupy(iterator, e_num): ...  over combs[lo..hi], stopping at
\* the first exception; the range is split in halves to bound the evaluation depth
RECURSIVE TallyLoop(_, _, _, _)
TallyLoop(arr, combs, lo, hi) ==
    IF lo > hi THEN ArrOk(arr)
    ELSE IF lo = hi THEN TallyBody(arr, combs[lo])
    ELSE LET mid == (lo + hi) \div 2
             r == TallyLoop(arr, combs, lo, mid)
         IN  IF r.err # "" THEN r ELSE TallyLoop(r.arr, combs, mid + 1, hi)

\* the max_am of a single electron
SingleMaxAm(l, e_num) == IF e_num = 0 THEN 0 ELSE l

\* a max_am of l for every open place of an atomic subshell
OpenMaxAm(l, e_num) ==
    l * (IF e_num <= 2 * l + 1 THEN e_num ELSE 4 * l + 2 - e_num)

\* max_am of subshell_terms
SubshellMaxAm(l, e_num) ==
    LET a == (e_num + 1) \div 2
        b == e_num \div 2
    IN  SumRange(l - a + 1, l + 1) + SumRange(l - b + 1, l + 1)

\* a max_mult that does not fold the second half of the subshell
MaxMultUnfolded(l, e_num) == e_num + 1

\* max_mult of subshell_terms
SubshellMaxMult(l, e_num) ==
    IF e_num <= 2 * l + 1 THEN e_num + 1 ELSE 4 * l + 3 - e_num

\* subshell_terms(orbital_type, shell, l, e_num)
subshell_terms(orbital_type, shell, l, e_num) ==
    LET max_am == SubshellMaxAm(l, e_num)
        max_mult == SubshellMaxMult(l, e_num)
    IN  IF orbital_type \notin {"atomic", "diatomic"} THEN TabRaise("Invalid orbital type.")
        ELSE LET iterator == IF orbital_type = "atomic"
                             THEN atomic_spinorbitals_iterator(shell, l)
                             ELSE diatomic_spinorbitals_iterator(shell, l)
                 t == IF orbital_type = "atomic"
                      THEN AtomicTermTable_init(max_mult, max_am, FALSE)
                      ELSE DiatomicTermTable_init(max_mult, max_am, FALSE)
             IN  IF IterErr(iterator) # "" THEN TabRaise(IterErr(iterator))
                 ELSE LET combs == occupy(IterObjs(iterator), e_num)
                          r == TallyLoop(t.arr, combs, 1, Len(combs))
                      IN  IF r.err # "" THEN TabRaise(r.err)
                          ELSE TabReturn(t.obj, r.arr)

(* ----------------------- multiple_subshell_terms ----------------------- *)
\* max_occ of one subshell
MaxOcc(orbital_type, l) ==
    IF orbital_type = "atomic" THEN 4 * l + 2 ELSE IF l > 0 THEN 4 ELSE 2

\* itertools.chain(*occupied): the occupations of every subshell, one
\* subshell after the other
RECURSIVE chain_all(_)
chain_all(occupied) ==
    IF Len(occupied) = 0 THEN <<>>
    ELSE Head(occupied) \o chain_all(Tail(occupied))

\* itertools.product(*occupied): every choice of one occupation per subshell,
\* each choice flattened to the sequence of its orbitals
RECURSIVE product_all(_)
product_all(occupied) ==
    IF Len(occupied) = 0 THEN << <<>> >>
    ELSE LET rest == product_all(Tail(occupied))
             first == Head(occupied)
         IN  [k \in 1..(Len(first) * Len(rest)) |->
                 first[((k - 1) \div Len(rest)) + 1] \o rest[((k - 1) % Len(rest)) + 1]]

\* the body of the second loop of multiple_subshell_terms for one choice:
\*     t.increment(int(2 * spin + 1), am)   unless skipped
MultiTallyBody(arr, comb) ==
    LET v == calc_vals(comb)
    IN  IF Skipped(v) THEN ArrOk(arr)
        ELSE increment(arr, v.spin + 1, v.am)

\* for comb in product(*occupied): ...  over combs[lo..hi]
RECURSIVE MultiTallyLoop(_, _, _, _)
MultiTallyLoop(arr, combs, lo, hi) ==
    IF lo > hi THEN ArrOk(arr)
    ELSE IF lo = hi THEN MultiTallyBody(arr, combs[lo])
    ELSE LET mid == (lo + hi) \div 2
             r == MultiTallyLoop(arr, combs, lo, mid)
         IN  IF r.err # "" THEN r ELSE MultiTallyLoop(r.arr, combs, mid + 1, hi)

\* the first loop of multiple_subshell_terms from subshell k on:
\* max_mult, max_am, occupied, or the exception an iterator raised
RECURSIVE SubshellsLoop(_, _, _, _)
SubshellsLoop(orbital_type, subshells, k, acc) ==
    IF k > Len(subshells) \/ acc.err # "" THEN acc
    ELSE LET shell == subshells[k][1]
             l == subshells[k][2]
             e_num == subshells[k][3]
             max_occ == MaxOcc(orbital_type, l)
             iterator == IF orbital_type = "atomic"
                         THEN atomic_spinorbitals_iterator(shell, l)
                         ELSE diatomic_spinorbitals_iterator(shell, l)
         IN  SubshellsLoop(orbital_type, subshells, k + 1,
                 IF IterErr(iterator) # "" THEN [acc EXCEPT !.err = IterErr(iterator)]
                 ELSE [err |-> "",
                       max_mult |-> acc.max_mult + min(e_num, max_occ - e_num),
                       max_am |-> acc.max_am + l * min(e_num, max_occ - e_num),
                       occupied |-> Append(acc.occupied,
                                           occupy(IterObjs(iterator), e_num))])

\* multiple_subshell_terms(orbital_type, *subshells), orbital_type valid
multiple_subshell_terms(orbital_type, subshells) ==
    IF Len(subshells) = 0 THEN TabRaise("Need subshells.")
    ELSE LET acc == SubshellsLoop(orbital_type, subshells, 1,
                        [err |-> "", max_mult |-> 1, max_am |-> 0, occupied |-> <<>>])
         IN  IF acc.err # "" THEN TabRaise(acc.err)
             ELSE LET t == IF orbital_type = "atomic"
                           THEN AtomicTermTable_init(acc.max_mult, acc.max_am, FALSE)
                           ELSE DiatomicTermTable_init(acc.max_mult, acc.max_am, FALSE)
                      combs == product_all(acc.occupied)
                      r == MultiTallyLoop(t.arr, combs, 1, Len(combs))
                  IN  IF r.err # "" THEN TabRaise(r.err)
                      ELSE TabReturn(t.obj, r.arr)

(* --------------------------- TermTable.__mul__ ------------------------- *)
\* one t.add(...) of the loop body, skipped when an earlier one raised
ThenAdd(r, cond, mult, am, val) ==
    IF r.err # "" \/ ~cond THEN r ELSE add(r.arr, mult, am, val)

\* o_mult inside the loops of __mul__, at rows i of self and k of o
OMult(o, i, k) == o.min_mult + 2 * i

\* the multiplicity of the "difference" branch of __mul__
DiffMult(mult, o_mult) == abs(mult - o_mult + 1)

\* the body of the innermost loop of __mul__ at cells (i, j) of self and
\* (k, l) of o; arr is the array of the result t
MulBody(arr, self, sa, o, oa, i, j, k, l) ==
    LET count == sa[i + 1][j + 1]
        o_count == oa[k + 1][l + 1]
        mult == self.min_mult + 2 * i
        am == j
        o_mult == OMult(o, i, k)
        o_am == l
        lower == mult > 1 /\ o_mult > 1 /\ mult + o_mult > 3
        r1 == add(arr, mult + o_mult - 1, am + o_am, count * o_count)
        r2 == ThenAdd(r1, lower, DiffMult(mult, o_mult), am + o_am, count * o_count)
        r3 == ThenAdd(r2, am > 0 /\ o_am > 0,
                      mult + o_mult - 1, abs(am - o_am), count * o_count)
    IN  ThenAdd(r3, am > 0 /\ o_am > 0 /\ lower,
                DiffMult(mult, o_mult), abs(am - o_am), count * o_count)

\* the four nested loops of __mul__ over the steps numbered lo..hi: step n
\* is the n-th (i, j, k, l) in loop order, counted from 0; the loops stop at
\* the first exception; the range is split in halves to bound the evaluation depth
RECURSIVE MulLoop(_, _, _, _, _, _, _)
MulLoop(arr, self, sa, o, oa, lo, hi) ==
    LET hw == o.height * o.width
    IN  IF lo > hi THEN ArrOk(arr)
        ELSE IF lo = hi
        THEN MulBody(arr, self, sa, o, oa,
                     (lo \div hw) \div self.width, (lo \div hw) % self.width,
                     (lo % hw) \div o.width, (lo % hw) % o.width)
        ELSE LET mid == (lo + hi) \div 2
                 r == MulLoop(arr, self, sa, o, oa, lo, mid)
             IN  IF r.err # "" THEN r ELSE MulLoop(r.arr, self, sa, o, oa, mid + 1, hi)

\* a type test that accepts a table of any class
NotATermTable(self, o) == ~("cls" \in DOMAIN o)

\* the type test of __mul__: not isinstance(o, TermTable) or type(self) != type(o)
\* (a table value carries its class in `cls`, any other value its `type`)
IsTermTable(o) == "cls" \in DOMAIN o
MulTypeError(self, o) == ~IsTermTable(o) \/ self.cls # o.cls

\* TermTable.__mul__(self, o) with the arrays sa of self and oa of o
TermTable_mul(self, sa, o, oa) ==
    IF MulTypeError(self, o) THEN TabRaise("Can only multiply a TermTable by a TermTable.")
    ELSE LET t == TermTable_init("TermTable", self.max_mult + o.max_mult - 1,
                                 self.max_am + o.max_am, FALSE)
             r == MulLoop(t.arr, self, sa, o, oa, 0,
                          self.height * self.width * o.height * o.width - 1)
         IN  IF r.err # "" THEN TabRaise(r.err) ELSE TabReturn(t.obj, r.arr)

(* ------------------------------ the session --------------------------- *)
\* a call record: the operation, its arguments, the index in tabs (or orbs)
\* of the object it returned (0: none, or None) and the exception it raised
Call(op, args, res, err) == [op |-> op, args |-> args, res |-> res, err |-> err]
NoCall == Call("", <<>>, 0, "")

OrbitalTypes == {"atomic", "diatomic"}
\* shell numbers up to the lowest shell that hosts l = MaxL
Shells == 1..(MaxL + 1)
Ls == 0..MaxL
\* electron counts within the capacity of the subshell
ENums(orbital_type, l) == 0..MaxOcc(orbital_type, l)
\* operands of a product that are not term tables
NonTables == {PyInt(2), PyNone}
\* the value the tests write into a cell
SetVal == 5

\* the heap (ts, ms) with a new table object (fields t.obj, array t.arr)
HeapAppend(ts, ms, t) ==
    [tabs |-> Append(ts, [t.obj EXCEPT !.table = Len(ms) + 1]),
     mem |-> Append(ms, t.arr)]

\* The term table session starts from the heap left by
\*     a = subshell_terms(*A); ac = a.cleaned()
\*     b = subshell_terms(*B); bc = b.cleaned()
\* for two distinct subshells A = (shell l+1) and B = (shell l+2) within
\* capacity: tabs = <<a, ac, b, bc>>.
InitTables ==
    \E ot1 \in OrbitalTypes, l1 \in Ls, ot2 \in OrbitalTypes, l2 \in Ls :
      \E e1 \in ENums(ot1, l1), e2 \in ENums(ot2, l2) :
        LET h1 == HeapAppend(<<>>, <<>>, subshell_terms(ot1, l1 + 1, l1, e1))
            h2 == cleaned(h1.tabs, h1.mem, 1)
            h3 == HeapAppend(h2.tabs, h2.mem, subshell_terms(ot2, l2 + 2, l2, e2))
            h4 == cleaned(h3.tabs, h3.mem, 3)
        IN  /\ given = <<[orbital_type |-> ot1, shell |-> l1 + 1, l |-> l1, e_num |-> e1],
                         [orbital_type |-> ot2, shell |-> l2 + 2, l |-> l2, e_num |-> e2]>>
            /\ tabs = h4.tabs
            /\ mem = h4.mem
            /\ orbs = <<>>
            /\ gens = <<>>
            /\ out = <<>>
            /\ last = NoCall

\* a new table object is put on the heap
Allocated(t) ==
    /\ tabs' = HeapAppend(tabs, mem, t).tabs
    /\ mem' = HeapAppend(tabs, mem, t).mem

\* t = subshell_terms(orbital_type, shell, l, e_num)
SubshellTerms(orbital_type, shell, l, e_num) ==
    \E r \in {subshell_terms(orbital_type, shell, l, e_num)} :
        /\ IF r.err # ""
           THEN /\ UNCHANGED <<tabs, mem>>
                /\ last' = Call("subshell_terms", <<orbital_type, shell, l, e_num>>, 0, r.err)
           ELSE /\ Allocated(r)
                /\ last' = Call("subshell_terms", <<orbital_type, shell, l, e_num>>,
                                Len(tabs) + 1, "")
        /\ UNCHANGED <<given, orbs, gens, out>>

\* c = tabs[i].cleaned(); the base class's cleaned() is `pass`: it returns None
Cleaned(i) ==
    /\ IF tabs[i].cls = "TermTable"
       THEN /\ UNCHANGED <<tabs, mem>>
            /\ last' = Call("cleaned", <<i>>, 0, "")
       ELSE \E h \in {cleaned(tabs, mem, i)} :
                /\ tabs' = h.tabs
                /\ mem' = h.mem
                /\ last' = Call("cleaned", <<i>>, h.res, "")
    /\ UNCHANGED <<given, orbs, gens, out>>

\* t = tabs[i] * tabs[j]
Mul(i, j) ==
    \E r \in {TermTable_mul(tabs[i], mem[tabs[i].table], tabs[j], mem[tabs[j].table])} :
        /\ IF r.err # ""
           THEN /\ UNCHANGED <<tabs, mem>>
                /\ last' = Call("__mul__", <<i, PyTab(j)>>, 0, r.err)
           ELSE /\ Allocated(r)
                /\ last' = Call("__mul__", <<i, PyTab(j)>>, Len(tabs) + 1, "")
        /\ UNCHANGED <<given, orbs, gens, out>>

\* tabs[i] * o (__mul__) or o * tabs[i] (__rmul__, which is __mul__) for an o
\* that is no term table
MulOther(i, o, reflected) ==
    \E r \in {TermTable_mul(tabs[i], mem[tabs[i].table], o, <<>>)} :
        LET op == IF reflected THEN "__rmul__" ELSE "__mul__"
        IN  /\ IF r.err # ""
               THEN /\ UNCHANGED <<tabs, mem>>
                    /\ last' = Call(op, <<i, o>>, 0, r.err)
               ELSE /\ Allocated(r)
                    /\ last' = Call(op, <<i, o>>, Len(tabs) + 1, "")
            /\ UNCHANGED <<given, orbs, gens, out>>

\* tabs[i].set(mult, am, val)
Set(i, mult, am, val) ==
    \E r \in {set(mem[tabs[i].table], mult, am, val)} :
        /\ mem' = [mem EXCEPT ![tabs[i].table] = r.arr]
        /\ last' = Call("set", <<i, mult, am, val>>, 0, r.err)
        /\ UNCHANGED <<given, tabs, orbs, gens, out>>

\* The session makes one call on its tables ...
DoSubshellTerms ==
    /\ last = NoCall
    /\ \E orbital_type \in OrbitalTypes, shell \in Shells, l \in Ls :
        \E e_num \in ENums(orbital_type, l) :
            SubshellTerms(orbital_type, shell, l, e_num)

DoCleaned ==
    /\ last = NoCall
    /\ \E i \in 1..Len(tabs) : Cleaned(i)

DoMul ==
    /\ last = NoCall
    /\ \E i, j \in 1..Len(tabs) : Mul(i, j)

DoMulOther ==
    /\ last = NoCall
    /\ \E i \in 1..Len(tabs), o \in NonTables, reflected \in BOOLEAN :
        MulOther(i, o, reflected)

\* ... and then may write into a corner cell of the table the call returned
DoSet ==
    /\ last.op \in {"cleaned", "__mul__"} /\ last.res # 0
    /\ \E mult \in {tabs[last.res].min_mult, tabs[last.res].max_mult},
          am \in {0, tabs[last.res].max_am} :
        Set(last.res, mult, am, SetVal)

Next == DoSubshellTerms \/ DoCleaned \/ DoMul \/ DoMulOther \/ DoSet

Spec == InitTables /\ [][Next]_vars

(* ------------------------- the orbital session ------------------------- *)
\* arguments a session passes to the spin-orbital constructors
NInputs == 0..(MaxL + 1)
\* the letters that stand in both alphabets
SharedLetters ==
    {ATOMIC_AM_SYMBOLS[i] : i \in 1..Len(ATOMIC_AM_SYMBOLS)}
    \cap {DIATOMIC_AM_SYMBOLS[i] : i \in 1..Len(DIATOMIC_AM_SYMBOLS)}
LInputs ==
    {PyInt(l) : l \in -1..MaxL}
    \cup {PyStr(ATOMIC_AM_SYMBOLS[k]) : k \in 1..(MaxL + 1)}
    \cup {PyStr(DIATOMIC_AM_SYMBOLS[k]) : k \in 1..(MaxL + 1)}
    \cup {PyStr("e")}
    \cup {PyStr(c) : c \in SharedLetters}
MlInputs ==
    (-(MaxL + 1))..(MaxL + 1)
    \cup {index(DIATOMIC_AM_SYMBOLS, c) : c \in SharedLetters}
    \cup {-index(DIATOMIC_AM_SYMBOLS, c) : c \in SharedLetters}
SpinInputs ==
    {PyInt(1), PyInt(-1), PyInt(0), PyFrac(1), PyFrac(-1),
     PyStr("alpha"), PyStr("beta"), PyStr("q")}

InitOrbitals ==
    /\ given = <<>>
    /\ tabs = <<>>
    /\ mem = <<>>
    /\ orbs = <<>>
    /\ gens = <<>>
    /\ out = <<>>
    /\ last = NoCall

\* a = AtomicSpinOrbital(n, l, ml, spin)
NewAtomicSpinOrbital(n, l, ml, spin) ==
    \E r \in {AtomicSpinOrbital(n, l, ml, spin)} :
        /\ IF r.err # ""
           THEN /\ UNCHANGED orbs
                /\ last' = Call("AtomicSpinOrbital", <<n, l, ml, spin>>, 0, r.err)
           ELSE /\ orbs' = Append(orbs, r.self)
                /\ last' = Call("AtomicSpinOrbital", <<n, l, ml, spin>>, Len(orbs) + 1, "")
        /\ UNCHANGED <<given, tabs, mem, gens, out>>

\* a = DiatomicSpinOrbital(n, l, ml, spin)
NewDiatomicSpinOrbital(n, l, ml, spin) ==
    \E r \in {DiatomicSpinOrbital(n, l, ml, spin)} :
        /\ IF r.err # ""
           THEN /\ UNCHANGED orbs
                /\ last' = Call("DiatomicSpinOrbital", <<n, l, ml, spin>>, 0, r.err)
           ELSE /\ orbs' = Append(orbs, r.self)
                /\ last' = Call("DiatomicSpinOrbital", <<n, l, ml, spin>>, Len(orbs) + 1, "")
        /\ UNCHANGED <<given, tabs, mem, gens, out>>

DoNewAtomicSpinOrbital ==
    /\ last = NoCall
    /\ \E n \in NInputs, l \in LInputs, ml \in MlInputs, spin \in SpinInputs :
        NewAtomicSpinOrbital(n, l, ml, spin)

DoNewDiatomicSpinOrbital ==
    /\ last = NoCall
    /\ \E n \in NInputs, l \in LInputs, ml \in MlInputs, spin \in SpinInputs :
        NewDiatomicSpinOrbital(n, l, ml, spin)

\* AtomicSpinOrbital.__init__(a, n, l, ml, spin) on the existing object
\* a = orbs[k]: the attributes the call set before it returned or raised stay
ReinitAtomicSpinOrbital(k, n, l, ml, spin) ==
    \E r \in {AtomicSpinOrbital_init(orbs[k], n, l, ml, spin)} :
        /\ orbs' = [orbs EXCEPT ![k] = r.self]
        /\ last' = Call("AtomicSpinOrbital.__init__", <<k, n, l, ml, spin>>, 0, r.err)
        /\ UNCHANGED <<given, tabs, mem, gens, out>>

\* DiatomicSpinOrbital.__init__(a, n, l, ml, spin) on a = orbs[k]
ReinitDiatomicSpinOrbital(k, n, l, ml, spin) ==
    \E r \in {DiatomicSpinOrbital_init(orbs[k], n, l, ml, spin)} :
        /\ orbs' = [orbs EXCEPT ![k] = r.self]
        /\ last' = Call("DiatomicSpinOrbital.__init__", <<k, n, l, ml, spin>>, 0, r.err)
        /\ UNCHANGED <<given, tabs, mem, gens, out>>

\* the orbital the session holds was constructed, as in the tests, from an
\* int l and an int spin
BuiltFromInts(cls) ==
    /\ last.op = cls /\ last.res # 0
    /\ last.args[2].type = "int" /\ last.args[4].type = "int"

DoReinitAtomicSpinOrbital ==
    /\ BuiltFromInts("AtomicSpinOrbital")
    /\ \E n \in NInputs, l \in LInputs, ml \in MlInputs, spin \in SpinInputs :
        ReinitAtomicSpinOrbital(last.res, n, l, ml, spin)

DoReinitDiatomicSpinOrbital ==
    /\ BuiltFromInts("DiatomicSpinOrbital")
    /\ \E n \in NInputs, l \in LInputs, ml \in MlInputs, spin \in SpinInputs :
        ReinitDiatomicSpinOrbital(last.res, n, l, ml, spin)

\* the session constructs one spin-orbital and may then call __init__ on it
\* again, as the tests do
NextOrbitals ==
    \/ DoNewAtomicSpinOrbital
    \/ DoNewDiatomicSpinOrbital
    \/ DoReinitAtomicSpinOrbital
    \/ DoReinitDiatomicSpinOrbital

SpecOrbitals == InitOrbitals /\ [][NextOrbitals]_vars

(* ------------------- term_symbols.py: TermSymbol ----------------------- *)
\* TermSymbol.check(mult, am), mult and am ints
TermSymbol_check(mult, am) == ~(mult < 1)

\* TermSymbol.__init__(self, mult, am, orbital_type='atomic')
TermSymbol_init(mult, am, orbital_type) ==
    IF ~TermSymbol_check(mult, am)
    THEN [err |-> "Multiplicity must be greater than 0 and multiplicity and angular momentum must be ints.",
          self |-> <<>>]
    ELSE IF orbital_type \notin {"atomic", "diatomic"}
    THEN [err |-> "Only atomic and diatomic orbitals are currently supported.",
          self |-> <<>>]
    ELSE [err |-> "",
          self |-> [am |-> abs(am), mult |-> mult, orbital_type |-> orbital_type]]

\* TermSymbol.num_microstates(self)
num_microstates(self) == (2 * self.am + 1) * self.mult

\* find_term_symbol(orbs) with j=False: TermSymbol(int(2 * spin + 1), am)
\* (spin is held in halves, so int(2 * spin + 1) is spin + 1)
find_term_symbol(os) ==
    LET v == calc_vals(os)
    IN  TermSymbol_init(v.spin + 1, v.am, "atomic")

\* SOTermSymbol.__init__(self, mult, am, j, orbital_type='atomic'); j is a
\* Python value
SOTermSymbol_init(mult, am, j, orbital_type) ==
    LET r == TermSymbol_init(mult, am, orbital_type)
    IN  IF r.err # "" THEN r
        ELSE IF j.type \notin {"int", "Fraction"}
        THEN [err |-> "Invalid j", self |-> <<>>]
        ELSE [err |-> "", self |-> [am |-> r.self.am, mult |-> r.self.mult,
                                    orbital_type |-> r.self.orbital_type, j |-> j]]

\* the j values form_jstates loops over, in halves: with s = Frac(mult - 1, 2),
\* max_j = am + s and min_j = max(am - s, s % 1), the elements of
\* min_j + np.arange(max_j - min_j + 1); adding the Fraction min_j to the
\* whole numbers of arange gives Fractions
JValues(self) ==
    LET s == self.mult - 1
        max_j == 2 * self.am + s
        min_j == IF 2 * self.am - s >= s % 2 THEN 2 * self.am - s ELSE s % 2
        span == (max_j - min_j) \div 2
    IN  [k \in 1..(span + 1) |-> PyFrac(min_j + 2 * (k - 1))]

\* list(self.form_jstates()): the SOTermSymbol(self.mult, self.am, j) of each
\* j in turn, up to the first that raises
form_jstates(self) ==
    LET made == [k \in 1..Len(JValues(self)) |->
                    SOTermSymbol_init(self.mult, self.am, JValues(self)[k], "atomic")]
        bad == {k \in 1..Len(made) : made[k].err # ""}
    IN  IF bad = {}
        THEN [err |-> "", val |-> [k \in 1..Len(made) |-> made[k].self]]
        ELSE [err |-> made[CHOOSE k \in bad : \A m \in bad : k <= m].err, val |-> <<>>]

(* ------------------- generators and their consumers -------------------- *)
\* the tables a table enumerator that does not stop at the half-filled
\* subshell yields for one l
AtomicTablesFull(am) ==
    [e_num \in 1..(4 * am + 2) |-> subshell_terms("atomic", am + 1, am, e_num)]

\* for e_num in range(1, 2 * am + 2): yield subshell_terms('atomic', am + 1, am, e_num)
AtomicTablesOf(am) ==
    [e_num \in 1..(2 * am + 1) |-> subshell_terms("atomic", am + 1, am, e_num)]

\* all_atomic_term_tables(max_am): the outcomes of its yields from am on
RECURSIVE AtomicTablesFrom(_, _)
AtomicTablesFrom(am, max_am) ==
    IF am >= max_am THEN <<>>
    ELSE AtomicTablesOf(am) \o AtomicTablesFrom(am + 1, max_am)
all_atomic_term_tables(max_am) == AtomicTablesFrom(0, max_am)

\* Calling a generator function runs none of its body: it returns a
\* generator object, which remembers how far its body has run (pos yields)
\* and whether it has finished (by returning or by raising).
Generator(fn, args) == [fn |-> fn, args |-> args, pos |-> 0, done |-> FALSE]

\* the outcome of each yield of the generator's body, run from the start:
\* the object made (for an orbital .self, for a table .obj and .arr), or the
\* exception raised in its place (.err)
GenBody(g) ==
    IF g.fn = "atomic_spinorbitals_iterator"
    THEN atomic_spinorbitals_iterator(g.args[1], g.args[2])
    ELSE IF g.fn = "diatomic_spinorbitals_iterator"
    THEN diatomic_spinorbitals_iterator(g.args[1], g.args[2])
    ELSE all_atomic_term_tables(g.args[1])

\* the value a yield hands over
Yielded(item) ==
    IF "self" \in DOMAIN item THEN item.self
    ELSE [obj |-> item.obj, arr |-> item.arr]

\* what a consuming call does to the generator g and what it returns
Taken(g, err, val) == [gen |-> g, err |-> err, val |-> val]

\* next(g), body being GenBody(g): the value yielded or the exception
\* (StopIteration once the body has returned, or is finished)
GenNextOf(g, body) ==
    IF g.done \/ g.pos >= Len(body)
    THEN Taken([g EXCEPT !.done = TRUE], "StopIteration", <<>>)
    ELSE IF body[g.pos + 1].err # ""
    THEN Taken([g EXCEPT !.done = TRUE], body[g.pos + 1].err, <<>>)
    ELSE Taken([g EXCEPT !.pos = g.pos + 1], "", Yielded(body[g.pos + 1]))
GenNext(g) == CHOOSE r \in {GenNextOf(g, body) : body \in {GenBody(g)}} : TRUE

\* list(g) / tuple(g): next(g) until it raises; StopIteration ends the list,
\* any other exception propagates.  rest is what the body has yet to yield,
\* errs the places in it where it raises instead
GenListOf(g, body) ==
    LET rest == IF g.done THEN <<>> ELSE SubSeq(body, g.pos + 1, Len(body))
        errs == {k \in 1..Len(rest) : rest[k].err # ""}
    IN  IF errs = {}
        THEN Taken([g EXCEPT !.pos = g.pos + Len(rest), !.done = TRUE], "",
                   [k \in 1..Len(rest) |-> Yielded(rest[k])])
        ELSE LET k == CHOOSE k \in errs : \A j \in errs : k <= j
             IN  Taken([g EXCEPT !.pos = g.pos + k - 1, !.done = TRUE],
                       rest[k].err, <<>>)
GenList(g) == CHOOSE r \in {GenListOf(g, body) : body \in {GenBody(g)}} : TRUE

\* list(occupy(g, e_num)), pool being the outcome of tuple(g):
\* combinations(iterator, e_num) first makes a tuple of the whole iterator
GenOccupyOf(pool, e_num) ==
    IF pool.err # "" THEN pool
    ELSE IF e_num < 0 THEN Taken(pool.gen, "r must be non-negative", <<>>)
    ELSE Taken(pool.gen, "", occupy(pool.val, e_num))
GenOccupy(g, e_num) ==
    CHOOSE r \in {GenOccupyOf(pool, e_num) : pool \in {GenList(g)}} : TRUE

(* ------------------------- the iterator session ------------------------ *)
\* what a consuming call returned: its name, the exception or the value
Got(op, err, val) == [op |-> op, err |-> err, val |-> val]

\* numbers of electrons asked of occupy: up to one more than any pool holds
OccupyInputs == (-1)..(4 * MaxL + 3)
\* max_am asked of all_atomic_term_tables: l runs up to MaxL
MaxAmInputs == 0..(MaxL + 1)

InitIterators ==
    /\ given = <<>>
    /\ tabs = <<>>
    /\ mem = <<>>
    /\ orbs = <<>>
    /\ gens = <<>>
    /\ out = <<>>
    /\ last = NoCall

\* g = fn(*args)
NewGenerator(fn, args) ==
    /\ gens' = Append(gens, Generator(fn, args))
    /\ last' = Call(fn, args, Len(gens) + 1, "")
    /\ UNCHANGED <<given, tabs, mem, orbs, out>>

\* the consuming call op on generator i took it to r.gen and returned r
Consumed(op, args, i, r) ==
    /\ gens' = [gens EXCEPT ![i] = r.gen]
    /\ out' = Append(out, Got(op, r.err, r.val))
    /\ last' = Call(op, args, 0, r.err)
    /\ UNCHANGED <<given, tabs, mem, orbs>>

\* the session makes one generator ...
DoAtomicIterator ==
    /\ gens = <<>>
    /\ \E shell \in Shells, l \in Ls :
        NewGenerator("atomic_spinorbitals_iterator", <<shell, l>>)

DoDiatomicIterator ==
    /\ gens = <<>>
    /\ \E shell \in Shells, l \in Ls :
        NewGenerator("diatomic_spinorbitals_iterator", <<shell, l>>)

DoAllAtomicTermTables ==
    /\ gens = <<>>
    /\ \E max_am \in MaxAmInputs :
        NewGenerator("all_atomic_term_tables", <<max_am>>)

\* ... and consumes it in up to MaxCalls calls: next(g), list(g) or, for an
\* orbital iterator, list(occupy(g, e_num))
CanConsume ==
    /\ Len(gens) = 1
    /\ Len(out) < MaxCalls
    /\ last.op # "find_term_symbol"

DoNext ==
    /\ CanConsume
    /\ \E r \in {GenNext(gens[1])} : Consumed("next", <<1>>, 1, r)

DoList ==
    /\ CanConsume
    /\ \E r \in {GenList(gens[1])} : Consumed("list", <<1>>, 1, r)

DoOccupy ==
    /\ CanConsume
    /\ gens[1].fn # "all_atomic_term_tables"
    /\ \E e_num \in OccupyInputs :
        \E r \in {GenOccupy(gens[1], e_num)} : Consumed("occupy", <<1, e_num>>, 1, r)

\* find_term_symbol(occ[c]) for an occupation of the list occupy returned
DoFindTermSymbol ==
    /\ last.op = "occupy" /\ last.err = ""
    /\ \E c \in 1..Len(out[Len(out)].val) :
        \E r \in {find_term_symbol(out[Len(out)].val[c])} :
            /\ out' = Append(out, Got("find_term_symbol", r.err, r.self))
            /\ last' = Call("find_term_symbol", <<c>>, 0, r.err)
            /\ UNCHANGED <<given, tabs, mem, orbs, gens>>

NextIterators ==
    \/ DoAtomicIterator
    \/ DoDiatomicIterator
    \/ DoAllAtomicTermTables
    \/ DoNext
    \/ DoList
    \/ DoOccupy
    \/ DoFindTermSymbol

SpecIterators == InitIterators /\ [][NextIterators]_vars

(* ------------------------ the term symbol session ---------------------- *)
\* arguments a session passes to TermSymbol
TermMults == 0..MaxTermMult
TermAms == (-MaxTermAm)..MaxTermAm
TermOrbitalTypes == {"atomic", "diatomic", "linear"}

InitTerms ==
    /\ given = <<>>
    /\ tabs = <<>>
    /\ mem = <<>>
    /\ orbs = <<>>
    /\ gens = <<>>
    /\ out = <<>>
    /\ last = NoCall

\* The session makes a term symbol: ts = TermSymbol(mult, am, orbital_type) ...
DoTermSymbol ==
    /\ last = NoCall
    /\ \E mult \in TermMults, am \in TermAms, orbital_type \in TermOrbitalTypes :
        \E r \in {TermSymbol_init(mult, am, orbital_type)} :
            /\ out' = Append(out, Got("TermSymbol", r.err, r.self))
            /\ last' = Call("TermSymbol", <<mult, am, orbital_type>>, 0, r.err)
            /\ UNCHANGED <<given, tabs, mem, orbs, gens>>

\* ... and then asks for list(ts.form_jstates()) ...
DoFormJstates ==
    /\ last.op = "TermSymbol" /\ last.err = ""
    /\ \E r \in {form_jstates(out[Len(out)].val)} :
        /\ out' = Append(out, Got("form_jstates", r.err, r.val))
        /\ last' = Call("form_jstates", <<>>, 0, r.err)
        /\ UNCHANGED <<given, tabs, mem, orbs, gens>>

\* ... or for ts.num_microstates()
DoNumMicrostates ==
    /\ last.op = "TermSymbol" /\ last.err = ""
    /\ out' = Append(out, Got("num_microstates", "", num_microstates(out[Len(out)].val)))
    /\ last' = Call("num_microstates", <<>>, 0, "")
    /\ UNCHANGED <<given, tabs, mem, orbs, gens>>

NextTerms == DoTermSymbol \/ DoFormJstates \/ DoNumMicrostates

SpecTerms == InitTerms /\ [][NextTerms]_vars

(* ---------------------- the table editing session --------------------- *)
\* the classes of table and the counts a session writes into a fresh table
TableClasses == {"TermTable", "AtomicTermTable", "DiatomicTermTable"}
CellVals == {-1, 0, 2}

\* Table(max_mult, max_am) of class cls
NewTable(cls, max_mult, max_am) ==
    IF cls = "AtomicTermTable" THEN AtomicTermTable_init(max_mult, max_am, FALSE)
    ELSE IF cls = "DiatomicTermTable" THEN DiatomicTermTable_init(max_mult, max_am, FALSE)
    ELSE TermTable_init("TermTable", max_mult, max_am, FALSE)

\* the multiplicities of the rows of a table and one past its last row, and
\* its first and last column and one past it
RowMults(t) == {t.min_mult + 2 * i : i \in 0..t.height}
ColAms(t) == {0, t.max_am, t.max_am + 1}

\* The editing session starts from the heap left by
\*     t = Table(max_mult, max_am); t.set(mult, am, val) for every cell
\* with counts from CellVals: tabs = <<t>>.
InitEdits ==
    \E cls \in TableClasses, max_mult \in 1..MaxTableMult, max_am \in 0..MaxTableAm :
      \E arr \in [1..((max_mult + 1) \div 2) -> [1..(max_am + 1) -> CellVals]] :
        /\ given = <<>>
        /\ tabs = <<[NewTable(cls, max_mult, max_am).obj EXCEPT !.table = 1]>>
        /\ mem = <<arr>>
        /\ orbs = <<>>
        /\ gens = <<>>
        /\ out = <<>>
        /\ last = NoCall

\* v = tabs[i].get(mult, am)
Get(i, mult, am) ==
    /\ IF CellIndexError(mem[tabs[i].table], RowOf(mult), am)
       THEN /\ out' = Append(out, Got("get", "IndexError", 0))
            /\ last' = Call("get", <<i, mult, am>>, 0, "IndexError")
       ELSE /\ out' = Append(out, Got("get", "", get(mem[tabs[i].table], mult, am)))
            /\ last' = Call("get", <<i, mult, am>>, 0, "")
    /\ UNCHANGED <<given, tabs, mem, orbs, gens>>

\* tabs[i].add(mult, am, val)
Add(i, mult, am, val) ==
    \E r \in {add(mem[tabs[i].table], mult, am, val)} :
        /\ mem' = [mem EXCEPT ![tabs[i].table] = r.arr]
        /\ last' = Call("add", <<i, mult, am, val>>, 0, r.err)
        /\ UNCHANGED <<given, tabs, orbs, gens, out>>

\* tabs[i].increment(mult, am)
Increment(i, mult, am) ==
    \E r \in {increment(mem[tabs[i].table], mult, am)} :
        /\ mem' = [mem EXCEPT ![tabs[i].table] = r.arr]
        /\ last' = Call("increment", <<i, mult, am>>, 0, r.err)
        /\ UNCHANGED <<given, tabs, orbs, gens, out>>

\* the session makes one call on its table
DoGet ==
    /\ last = NoCall
    /\ \E mult \in RowMults(tabs[1]), am \in ColAms(tabs[1]) : Get(1, mult, am)

DoSetCell ==
    /\ last = NoCall
    /\ \E mult \in RowMults(tabs[1]), am \in ColAms(tabs[1]) : Set(1, mult, am, SetVal)

DoAdd ==
    /\ last = NoCall
    /\ \E mult \in RowMults(tabs[1]), am \in ColAms(tabs[1]) : Add(1, mult, am, SetVal)

DoIncrement ==
    /\ last = NoCall
    /\ \E mult \in RowMults(tabs[1]), am \in ColAms(tabs[1]) : Increment(1, mult, am)

DoCleanedEdited ==
    /\ last = NoCall
    /\ Cleaned(1)

NextEdits ==
    \/ DoGet
    \/ DoSetCell
    \/ DoAdd
    \/ DoIncrement
    \/ DoCleanedEdited

SpecEdits == InitEdits /\ [][NextEdits]_vars

(* --------------------- the several-subshells session ------------------- *)
\* the lists of 1..MaxSubshells subshells (shell, l, e_num) of one kind, each
\* e_num within capacity: the k-th subshell of a list has shell l + k, which
\* every class accepts
OpenPlaces(orbital_type, l, e_num) ==
    min(e_num, MaxOcc(orbital_type, l) - e_num)
RECURSIVE OpenSum(_, _, _)
OpenSum(orbital_type, subshells, k) ==
    IF k > Len(subshells) THEN 0
    ELSE OpenPlaces(orbital_type, subshells[k][2], subshells[k][3])
         + OpenSum(orbital_type, subshells, k + 1)
SubshellLists(orbital_type) ==
    UNION {
        {q \in [1..n -> UNION {{<<l + k, l, e_num>> : k \in 1..n, e_num \in ENums(orbital_type, l)}
                                 : l \in Ls}] :
            /\ \A k \in 1..n : q[k][1] = q[k][2] + k
            /\ OpenSum(orbital_type, q, 1) <= MaxOpen}
        : n \in 1..MaxSubshells}

InitMultiple ==
    /\ given = <<>>
    /\ tabs = <<>>
    /\ mem = <<>>
    /\ orbs = <<>>
    /\ gens = <<>>
    /\ out = <<>>
    /\ last = NoCall

\* t = multiple_subshell_terms(orbital_type, *subshells)
MultipleSubshellTerms(orbital_type, subshells) ==
    \E r \in {multiple_subshell_terms(orbital_type, subshells)} :
        /\ IF r.err # ""
           THEN /\ UNCHANGED <<tabs, mem>>
                /\ last' = Call("multiple_subshell_terms", <<orbital_type, subshells>>, 0, r.err)
           ELSE /\ Allocated(r)
                /\ last' = Call("multiple_subshell_terms", <<orbital_type, subshells>>,
                                Len(tabs) + 1, "")
        /\ UNCHANGED <<given, orbs, gens, out>>

DoMultipleSubshellTerms ==
    /\ last = NoCall
    /\ \E orbital_type \in OrbitalTypes :
        \E subshells \in SubshellLists(orbital_type) :
            MultipleSubshellTerms(orbital_type, subshells)

\* t.cleaned() of the table returned
DoCleanedMultiple ==
    /\ last.op = "multiple_subshell_terms" /\ last.res # 0
    /\ Cleaned(last.res)

\* t.get / t.set / t.add / t.increment on the table a call returned
DoEditReturned ==
    /\ last.op \in {"subshell_terms", "multiple_subshell_terms", "cleaned"}
    /\ last.res # 0
    /\ \E mult \in RowMults(tabs[last.res]), am \in ColAms(tabs[last.res]) :
        \/ Get(last.res, mult, am)
        \/ Set(last.res, mult, am, SetVal)
        \/ Add(last.res, mult, am, SetVal)
        \/ Increment(last.res, mult, am)

\* (the session may instead call subshell_terms on one subshell)
NextMultiple ==
    \/ DoMultipleSubshellTerms
    \/ DoCleanedMultiple
    \/ DoSubshellTerms
    \/ DoEditReturned

SpecMultiple == InitMultiple /\ [][NextMultiple]_vars

(* ======================== the claims, checked ========================== *)

(* ---- occupations of a subshell, counted without the enumerator -------- *)
\* the spin-orbitals of a subshell as pairs <<ml, spin>> (spin in halves)
SpinOrbitalSet(orbital_type, l) ==
    (IF orbital_type = "atomic" THEN (-l)..l ELSE {l, -l}) \X {1, -1}

RECURSIVE SumOf(_, _)
SumOf(S, k) ==
    IF S = {} THEN 0
    ELSE LET x == CHOOSE x \in S : TRUE IN x[k] + SumOf(S \ {x}, k)

\* the e_num-element occupations of a subshell
Occupations(orbital_type, l, e_num) ==
    {S \in SUBSET SpinOrbitalSet(orbital_type, l) : Cardinality(S) = e_num}

\* for every subshell within capacity: the total <<M_L, 2 M_S>> of each of
\* its occupations
OccupationTotals ==
    [orbital_type \in OrbitalTypes, l \in Ls, e_num \in 0..(4 * MaxL + 2) |->
        IF e_num \in ENums(orbital_type, l)
        THEN LET occs == Occupations(orbital_type, l, e_num)
             IN  [S \in occs |-> <<SumOf(S, 1), SumOf(S, 2)>>]
        ELSE <<>>]

\* the number of occupations of the subshell with total M_L = am and total
\* M_S = ms2 / 2
Microstates(orbital_type, l, e_num, am, ms2) ==
    LET tot == OccupationTotals[orbital_type, l, e_num]
    IN  Cardinality({S \in DOMAIN tot : tot[S] = <<am, ms2>>})

\* the sum of all cells of an array
RECURSIVE SumSeq(_)
SumSeq(q) == IF Len(q) = 0 THEN 0 ELSE Head(q) + SumSeq(Tail(q))
SumCells(arr) == SumSeq([i \in 1..Height(arr) |-> SumSeq(arr[i])])

\* C3: raw tally invariant.  Every cell of a table returned by
\* subshell_terms(kind, shell, l, e), at the row of multiplicity mult and the
\* column am, holds the number of e-element occupations of the subshell with
\* total M_L = am and total M_S = (mult - 1) / 2; the occupations with
\* M_L < 0 or M_S < 0 are counted nowhere, and no other is left out.
C3_RawTally ==
    (last.op = "subshell_terms" /\ last.res # 0) =>
        LET t == tabs[last.res]
            arr == mem[t.table]
            ot == last.args[1]
            l == last.args[3]
            e == last.args[4]
            tot == OccupationTotals[ot, l, e]
        IN  /\ \A i \in 0..(t.height - 1), am \in 0..t.max_am :
                get(arr, t.min_mult + 2 * i, am)
                    = Microstates(ot, l, e, am, t.min_mult + 2 * i - 1)
            /\ SumCells(arr)
                    = Cardinality({S \in DOMAIN tot : tot[S][1] >= 0 /\ tot[S][2] >= 0})

\* a p^2 table has been returned: 15 occupations, 8 of them tallied
C3_Witness ==
    /\ last.op = "subshell_terms" /\ last.res # 0
    /\ last.args = <<"atomic", 2, 1, 2>>
    /\ mem[tabs[last.res].table] = <<<<3, 2, 1>>, <<1, 1, 0>>>>

\* C3 holds of every subshell up to l = MaxL: s, p (and d with MaxL = 2),
\* sigma, pi (and delta)

(* ------------------------------ cleaning ------------------------------- *)
\* C1: cleaning is idempotent.  cleaned() of a table that cleaned() returned
\* has exactly the counts of its operand.
C1_Idempotent ==
    (last.op = "cleaned" /\ last.res # 0 /\ tabs[last.args[1]].clean) =>
        mem[tabs[last.res].table] = mem[tabs[last.args[1]].table]

\* C2: neither cleaned() nor the product modifies its operands.  A step
\* that calls cleaned(), __mul__ or __rmul__ leaves every table that existed
\* before it with the same fields (max_mult, max_am, _clean, ...) and the
\* same counts; a table it returns is a new object with an array no earlier
\* table refers to; the table cleaned() returns has _clean set; and writing a
\* cell of a returned table changes no cell of any other table.
C2_Frame ==
    [][ /\ last'.op \in {"cleaned", "__mul__", "__rmul__"} =>
            /\ Len(tabs') >= Len(tabs)
            /\ \A i \in 1..Len(tabs) :
                /\ tabs'[i] = tabs[i]
                /\ mem'[tabs[i].table] = mem[tabs[i].table]
            /\ last'.res # 0 =>
                /\ last'.res = Len(tabs) + 1
                /\ Len(tabs') = Len(tabs) + 1
                /\ \A i \in 1..Len(tabs) : tabs'[last'.res].table # tabs[i].table
                /\ last'.op = "cleaned" => tabs'[last'.res].clean
        /\ last'.op = "set" =>
            /\ tabs' = tabs
            /\ \A i \in 1..Len(tabs) :
                i # last'.args[1] => mem'[tabs[i].table] = mem[tabs[i].table]
      ]_vars

\* a corner of the table that cleaned() returned for the cleaned p^2 table
\* has been overwritten, and the p^2 tables hold their counts
C2_Witness ==
    /\ last.op = "set" /\ last.err = ""
    /\ last.args[1] = 5 /\ tabs[5].clean
    /\ get(mem[tabs[5].table], last.args[2], last.args[3]) = SetVal
    /\ mem[tabs[1].table] = <<<<3, 2, 1>>, <<1, 1, 0>>>>
    /\ mem[tabs[2].table] = <<<<1, 0, 1>>, <<0, 1, 0>>>>

\* C4: particle-hole symmetry.  When a is the table of an atomic subshell
\* with e electrons and b the table of an atomic subshell of the same l with
\* 4l + 2 - e electrons, the table a.cleaned() returns has the max_mult, the
\* max_am and the counts of the cleaned b.
C4_ParticleHole ==
    (/\ last.op = "cleaned" /\ last.args[1] = 1 /\ last.res # 0
     /\ given[1].orbital_type = "atomic" /\ given[2].orbital_type = "atomic"
     /\ given[1].l = given[2].l
     /\ given[1].e_num + given[2].e_num = 4 * given[1].l + 2) =>
        /\ tabs[last.res].max_mult = tabs[4].max_mult
        /\ tabs[last.res].max_am = tabs[4].max_am
        /\ mem[tabs[last.res].table] = mem[tabs[4].table]

\* p^1 has been cleaned next to the cleaned p^5: both are one 2P term
C4_Witness ==
    /\ last.op = "cleaned" /\ last.args[1] = 1 /\ last.res # 0
    /\ given[1].orbital_type = "atomic" /\ given[1].l = 1 /\ given[1].e_num = 1
    /\ given[2].orbital_type = "atomic" /\ given[2].l = 1 /\ given[2].e_num = 5
    /\ mem[tabs[last.res].table] = <<<<0, 1>>>>
    /\ mem[tabs[4].table] = <<<<0, 1>>>>

(* ------------------------------ the product ---------------------------- *)
\* the call was a product of two tables, both returned by cleaned() and of
\* the same class
CleanedProduct ==
    /\ last.op = "__mul__"
    /\ last.args[2].type = "TermTable"
    /\ tabs[last.args[1]].clean /\ tabs[last.args[2].val].clean
    /\ tabs[last.args[1]].cls = tabs[last.args[2].val].cls

\* the cells of table t (array arr) that are not zero, as <<mult, am, count>>
NonzeroCells(t, arr) ==
    {<<t.min_mult + 2 * p[1], p[2], arr[p[1] + 1][p[2] + 1]>> :
        p \in {q \in (0..(t.height - 1)) \X (0..(t.width - 1)) :
                  arr[q[1] + 1][q[2] + 1] # 0}}

\* how many of the four coupled cells of the pair c1, c2 are the cell (mult, am)
Deposits(c1, c2, mult, am) ==
    LET top == c1[1] + c2[1] - 1
        low == abs(c1[1] - c2[1]) + 1
        sum == c1[2] + c2[2]
        dif == abs(c1[2] - c2[2])
        lower == c1[1] # 1 /\ c2[1] # 1
        down == c1[2] # 0 /\ c2[2] # 0
        one(b) == IF b THEN 1 ELSE 0
    IN  one(top = mult /\ sum = am)
        + one(lower /\ low = mult /\ sum = am)
        + one(down /\ top = mult /\ dif = am)
        + one(lower /\ down /\ low = mult /\ dif = am)

\* the count the coupling rule puts in cell (mult, am): the sum over the
\* pairs of nonzero cells of count1 * count2 per deposit
RECURSIVE CoupledSum(_, _, _)
CoupledSum(pairs, mult, am) ==
    IF pairs = {} THEN 0
    ELSE LET p == CHOOSE p \in pairs : TRUE
         IN  p[1][3] * p[2][3] * Deposits(p[1], p[2], mult, am)
             + CoupledSum(pairs \ {p}, mult, am)

\* C5: product coupling rule.  A table returned by the product of two cleaned
\* tables A, B of the same kind has max_mult = A.max_mult + B.max_mult - 1 and
\* max_am = A.max_am + B.max_am, and its every cell holds the sum, over the
\* pairs of a nonzero cell of A and a nonzero cell of B, of count1 * count2
\* for each of the four coupled cells that is this cell.
C5_Coupling ==
    (CleanedProduct /\ last.res # 0) =>
        LET A == tabs[last.args[1]]
            B == tabs[last.args[2].val]
            t == tabs[last.res]
            pairs == NonzeroCells(A, mem[A.table]) \X NonzeroCells(B, mem[B.table])
        IN  /\ t.max_mult = A.max_mult + B.max_mult - 1
            /\ t.max_am = A.max_am + B.max_am
            /\ \A i \in 0..(t.height - 1), am \in 0..t.max_am :
                 get(mem[t.table], t.min_mult + 2 * i, am)
                     = CoupledSum(pairs, t.min_mult + 2 * i, am)

\* the count of cell (mult, am) of table t (array arr), 0 outside the table
CountAt(t, arr, mult, am) ==
    IF mult >= t.min_mult /\ mult <= t.max_mult /\ (mult - t.min_mult) % 2 = 0
       /\ am >= 0 /\ am <= t.max_am
    THEN get(arr, mult, am)
    ELSE 0

\* C6: a table returned by the product of the cleaned tables of two distinct
\* subshells of the same kind has, in every (mult, am) cell, the count of the cleaned
\* multiple_subshell_terms table of the two subshells.
C6_CombinedSystem ==
    (/\ last.op = "__mul__" /\ last.args = <<2, PyTab(4)>>
     /\ given[1].orbital_type = given[2].orbital_type
     /\ last.res # 0) =>
        LET m == multiple_subshell_terms(given[1].orbital_type,
                     <<<<given[1].shell, given[1].l, given[1].e_num>>,
                       <<given[2].shell, given[2].l, given[2].e_num>>>>)
            c == CleanedArray(m.obj.cls, m.arr)
            t == tabs[last.res]
        IN  /\ m.err = ""
            /\ \A mult \in 1..(t.max_mult + m.obj.max_mult),
                  am \in 0..(t.max_am + m.obj.max_am) :
                 CountAt(t, mem[t.table], mult, am) = CountAt(m.obj, c, mult, am)

\* C7: the product is total on two cleaned tables of the same kind: it
\* raises nothing (no cell outside the result table is addressed) and
\* returns a table.
C7_Total ==
    CleanedProduct => (last.err = "" /\ last.res # 0)

\* the product was called on tables of different classes or on a table and
\* a value that is no table
Mismatched(call) ==
    /\ call.op \in {"__mul__", "__rmul__"}
    /\ \/ call.args[2].type # "TermTable"
       \/ tabs[call.args[1]].cls # tabs[call.args[2].val].cls

\* C8: a product of an AtomicTermTable and a DiatomicTermTable, in either
\* order, or of a table and a non-table, raises the type-compatibility error,
\* returns no table and leaves the heap (both operands) as it was.
C8_TypeError ==
    [][ Mismatched(last') =>
            /\ last'.err = "Can only multiply a TermTable by a TermTable."
            /\ last'.res = 0
            /\ tabs' = tabs
            /\ mem' = mem
      ]_vars

\* an atomic table was multiplied by a diatomic one, and the session's four
\* tables are all there is
C8_Witness ==
    /\ last.op = "__mul__" /\ last.args[2].type = "TermTable"
    /\ tabs[last.args[1]].cls = "AtomicTermTable"
    /\ tabs[last.args[2].val].cls = "DiatomicTermTable"
    /\ last.err = "Can only multiply a TermTable by a TermTable."
    /\ Len(tabs) = 4

(* ------------------------------ orbitals ------------------------------- *)
\* the angular momentum an argument l stands for: an int itself, a letter
\* its position in the class's alphabet(s); -1 for an unknown letter
AtomicL(l) ==
    IF l.type = "str" THEN index(ATOMIC_AM_SYMBOLS, l.val) ELSE l.val
DiatomicL(l) ==
    IF l.type # "str" THEN l.val
    ELSE IF index(DIATOMIC_AM_SYMBOLS, l.val) >= 0
         THEN index(DIATOMIC_AM_SYMBOLS, l.val)
         ELSE index(ATOMIC_AM_SYMBOLS, l.val)

\* C9: constructing a spin-orbital with an integer ml, |ml| > l, fails with a
\* validation error, for ml > l and for ml < -l alike; every atomic orbital
\* that was constructed has -l <= ml <= l.
C9_MlValidated ==
    /\ (/\ last.op \in {"AtomicSpinOrbital", "DiatomicSpinOrbital"}
        /\ abs(last.args[3]) > (IF last.op = "AtomicSpinOrbital"
                                THEN AtomicL(last.args[2])
                                ELSE DiatomicL(last.args[2]))) =>
            (last.err # "" /\ last.res = 0)
    /\ \A k \in 1..Len(orbs) :
            orbs[k]["__class__"] = "AtomicSpinOrbital" =>
                (-orbs[k]["l"] <= orbs[k]["ml"] /\ orbs[k]["ml"] <= orbs[k]["l"])

\* C10: diatomic projection restriction.  DiatomicSpinOrbital(n, l, ml, spin)
\* with valid n, l and spin succeeds if and only if |ml| = l; every other ml
\* is rejected with a validation error.
C10_DiatomicProjection ==
    (/\ last.op = "DiatomicSpinOrbital"
     /\ last.args[1] >= 1
     /\ DiatomicL(last.args[2]) >= 0
     /\ IsAlpha(last.args[4]) \/ IsBeta(last.args[4])) =>
        IF abs(last.args[3]) = DiatomicL(last.args[2])
        THEN /\ last.err = "" /\ last.res # 0
             /\ orbs[last.res]["ml"] = last.args[3]
             /\ orbs[last.res]["l"] = DiatomicL(last.args[2])
        ELSE /\ last.res = 0 /\ orbs = <<>>
             /\ last.err \in
                  {"Angular momentum (ml) is a positive integer such that -l <= ml <= l",
                   "Diatomic orbitals may only have ml = +- l"}

\* a pi orbital with ml = 0 was refused, and a pi orbital with ml = -1 made
C10_Witness ==
    /\ last.op = "DiatomicSpinOrbital"
    /\ \/ /\ last.args = <<1, PyInt(1), 0, PyInt(1)>>
          /\ last.err = "Diatomic orbitals may only have ml = +- l"
       \/ /\ last.args = <<1, PyStr("pi"), -1, PyStr("beta")>>
          /\ last.res = 1 /\ orbs[1]["ml"] = -1

\* C11: an __init__ call on an existing orbital that is rejected with a
\* validation error leaves the orbital (its n, l, ml and spin) as it was.
C11_RejectedInitKeeps ==
    [][ (/\ last'.op \in {"AtomicSpinOrbital.__init__", "DiatomicSpinOrbital.__init__"}
         /\ last'.err # "") => orbs' = orbs
      ]_vars

\* C19: a letter of the atomic alphabet that DiatomicSpinOrbital accepts
\* gives the orbital the l that AtomicSpinOrbital gives an orbital for the
\* same letter (in a shell high enough to hold it).
C19_LatinAlias ==
    (/\ last.op = "DiatomicSpinOrbital" /\ last.res # 0
     /\ last.args[2].type = "str"
     /\ index(ATOMIC_AM_SYMBOLS, last.args[2].val) >= 0) =>
        LET a == AtomicSpinOrbital(Len(ATOMIC_AM_SYMBOLS) + 1, last.args[2], 0, PyInt(1))
        IN  a.err = "" /\ a.self["l"] = orbs[last.res]["l"]

(* --------------------- claims about the iterators ---------------------- *)
\* the first consuming call of the session was list(g), g made by fn
ListedFirst(fn) ==
    /\ Len(out) >= 1
    /\ gens[1].fn = fn
    /\ out[1].op = "list"

\* the k-th element of a listing is the orbital (cls, shell, l, ml, spin)
IsOrbital(o, cls, shell, l, ml, spin) ==
    /\ o["__class__"] = cls
    /\ o["n"] = shell /\ o["l"] = l /\ o["ml"] = ml /\ o["spin"] = spin

\* all elements of a sequence differ
Distinct(v) == \A i, j \in 1..Len(v) : i # j => v[i] # v[j]

\* C12: atomic_spinorbitals_iterator(shell, l) yields exactly 2(2l+1)
\* pairwise distinct orbitals of that subshell, in the order ml = l, l-1,
\* ..., -l and, for each ml, spin +1/2 before spin -1/2.
C12_AtomicOrder ==
    (/\ ListedFirst("atomic_spinorbitals_iterator")
     /\ gens[1].args[2] < gens[1].args[1]) =>
        LET shell == gens[1].args[1]
            l == gens[1].args[2]
            v == out[1].val
        IN  /\ out[1].err = ""
            /\ Len(v) = 2 * (2 * l + 1)
            /\ Distinct(v)
            /\ \A k \in 1..Len(v) :
                IsOrbital(v[k], "AtomicSpinOrbital", shell, l,
                          l - ((k - 1) \div 2), IF k % 2 = 1 THEN 1 ELSE -1)

\* a p subshell has been listed: six orbitals from ml = 1 down to ml = -1
C12_Witness ==
    /\ ListedFirst("atomic_spinorbitals_iterator")
    /\ gens[1].args = <<2, 1>>
    /\ Len(out[1].val) = 6
    /\ out[1].val[1]["ml"] = 1 /\ out[1].val[6]["ml"] = -1

\* C13: diatomic_spinorbitals_iterator(shell, l) yields exactly 2 orbitals
\* (ml = 0, spin +1/2 then -1/2) when l = 0 and exactly 4 orbitals, in the
\* order (+l, +1/2), (+l, -1/2), (-l, +1/2), (-l, -1/2), when l > 0; no
\* orbital with |ml| < l is ever yielded for l > 0.
C13_DiatomicOrder ==
    ListedFirst("diatomic_spinorbitals_iterator") =>
        LET shell == gens[1].args[1]
            l == gens[1].args[2]
            v == out[1].val
            Is(k, ml, spin) == IsOrbital(v[k], "DiatomicSpinOrbital", shell, l, ml, spin)
        IN  /\ out[1].err = ""
            /\ IF l = 0
               THEN Len(v) = 2 /\ Is(1, 0, 1) /\ Is(2, 0, -1)
               ELSE /\ Len(v) = 4
                    /\ Is(1, l, 1) /\ Is(2, l, -1) /\ Is(3, -l, 1) /\ Is(4, -l, -1)
                    /\ \A k \in 1..Len(v) : ~(abs(v[k]["ml"]) < l)

\* a sigma subshell has been listed: its two orbitals
C13_Witness ==
    /\ ListedFirst("diatomic_spinorbitals_iterator")
    /\ gens[1].args[2] = 0
    /\ Len(out[1].val) = 2

\* the elements of a first pass over the session's iterator
FirstPass == GenList(Generator(gens[1].fn, gens[1].args)).val

\* C14: the sequences returned by atomic_spinorbitals_iterator(shell, l) and
\* by all_atomic_term_tables(max_am) are restartable: after the returned
\* object has been iterated to exhaustion (for example by one call of
\* occupy), iterating the same object again yields the same elements in the
\* same order as the first pass.
C14_Restartable ==
    (/\ Len(out) >= 2
     /\ gens[1].fn \in {"atomic_spinorbitals_iterator", "all_atomic_term_tables"}
     /\ out[1].op \in {"list", "occupy"} /\ out[1].err = ""
     /\ out[2].op = "list") =>
        out[2].err = "" /\ out[2].val = FirstPass

\* the first consuming call of the session was list(occupy(g, e_num)), and
\* it is the last call so far
OccupiedFirst == Len(out) = 1 /\ last.op = "occupy"

\* the k-element sets of places of a sequence of n elements, their number
\* C(n, k), and the elements at the places S, in input order
KSubsets(n, k) == {S \in SUBSET (1..n) : Cardinality(S) = k}
RECURSIVE Binomial(_, _)
Binomial(n, k) ==
    IF k = 0 THEN 1
    ELSE IF n = 0 THEN 0
    ELSE Binomial(n - 1, k - 1) + Binomial(n - 1, k)
Pick(pool, S) ==
    [i \in 1..Cardinality(S) |->
        pool[CHOOSE j \in S : Cardinality({x \in S : x < j}) = i - 1]]

\* C15: for a sequence of N distinct orbitals and any k >= 0, occupy yields
\* exactly the C(N, k) k-element subsets of the sequence, each exactly once,
\* each listing k pairwise distinct orbitals in input order: exactly one
\* empty occupation for k = 0 and no occupation at all (and no error) for
\* k > N.
C15_Occupy ==
    (/\ OccupiedFirst
     /\ last.args[2] >= 0
     /\ GenList(Generator(gens[1].fn, gens[1].args)).err = "") =>
        LET pool == FirstPass
            N == Len(pool)
            e == last.args[2]
            v == out[1].val
        IN  /\ Distinct(pool)
            /\ out[1].err = ""
            /\ Len(v) = Binomial(N, e)
            /\ {v[i] : i \in 1..Len(v)} = {Pick(pool, S) : S \in KSubsets(N, e)}
            /\ Distinct(v)
            /\ \A i \in 1..Len(v) : Len(v[i]) = e /\ Distinct(v[i])
            /\ (e = 0 => v = << <<>> >>)
            /\ (e > N => v = <<>>)

\* two electrons have been placed in an atomic p subshell: 15 occupations
C15_Witness ==
    /\ OccupiedFirst
    /\ gens[1].fn = "atomic_spinorbitals_iterator"
    /\ gens[1].args = <<2, 1>>
    /\ last.args[2] = 2
    /\ Len(out[1].val) = 15

\* the table subshell_terms('atomic', l + 1, l, e) returns, as a yielded value
AtomicTableValue(l, e) ==
    LET r == subshell_terms("atomic", l + 1, l, e)
    IN  [obj |-> r.obj, arr |-> r.arr]

\* the table due at place k of the family: the e-th of its l, where the
\* tables of smaller l fill the places up to l * l
DueAt(k) ==
    LET l == CHOOSE l \in 0..k : l * l < k /\ k <= (l + 1) * (l + 1)
    IN  AtomicTableValue(l, k - l * l)

\* the session's calls so far were all next(g)
OnlyNext == \A i \in 1..Len(out) : out[i].op = "next"

Sought == out[Len(out) - 1].val[last.args[1]]

\* C18: for every occupation (any set of spin-orbitals, including ones whose
\* total M_L or total M_S is negative), find_term_symbol returns the term
\* symbol with multiplicity 2|M_S|+1 and angular momentum |M_L|, where
\* (M_L, M_S) is the result of calc_vals on that occupation.
\* (calc_vals holds M_S in halves, so 2|M_S| is abs(.spin))
C18_TermOfOccupation ==
    last.op = "find_term_symbol" =>
        /\ out[Len(out)].err = ""
        /\ out[Len(out)].val.mult = abs(calc_vals(Sought).spin) + 1
        /\ out[Len(out)].val.am = abs(calc_vals(Sought).am)

(* ------------------------ claims about the counts ---------------------- *)
\* every cell of an array is a non-negative integer
NonNegative(arr) ==
    \A i \in 1..Len(arr) : \A j \in 1..Len(arr[i]) :
        arr[i][j] \in Int /\ arr[i][j] >= 0

\* C20: counts stay non-negative through cleaning: for every kind, subshell
\* l and electron count e within capacity, every cell of
\* subshell_terms(kind, shell, l, e) and every cell of its cleaned() table
\* is a non-negative integer.
C20_NonNegative ==
    /\ (last.op = "subshell_terms" /\ last.res # 0) =>
            NonNegative(mem[tabs[last.res].table])
    /\ (last.op = "cleaned" /\ last.res # 0 /\ last.args[1] \in {1, 3}) =>
            /\ NonNegative(mem[tabs[last.args[1]].table])
            /\ NonNegative(mem[tabs[last.res].table])

\* the table of an atomic p2 subshell, with counts up to 3, has been
\* cleaned to one term per nonzero cell
C20_Witness ==
    /\ last.op = "cleaned" /\ last.res # 0 /\ last.args[1] = 3
    /\ given[2].orbital_type = "atomic" /\ given[2].l = 1 /\ given[2].e_num = 2
    /\ mem[tabs[3].table] = <<<<3, 2, 1>>, <<1, 1, 0>>>>
    /\ mem[tabs[last.res].table] = <<<<1, 0, 1>>, <<0, 1, 0>>>>

(* ------------------ claims about several subshells --------------------- *)
\* how many of the totals tot[S] of the occupations S in occs equal each of
\* the totals in P
RECURSIVE CountTotals(_, _)
CountTotals(tot, P) ==
    IF P = {} THEN <<>>
    ELSE LET p == CHOOSE p \in P : TRUE
         IN  (p :> Cardinality({S \in DOMAIN tot : tot[S] = p}))
                 @@ CountTotals(tot, P \ {p})

\* for every subshell within capacity: how many of its occupations have each
\* total <<M_L, 2 M_S>> that occurs
TotalCounts ==
    [orbital_type \in OrbitalTypes, l \in Ls, e_num \in 0..(4 * MaxL + 2) |->
        IF e_num \in ENums(orbital_type, l)
        THEN LET tot == OccupationTotals[orbital_type, l, e_num]
             IN  CountTotals(tot, {tot[S] : S \in DOMAIN tot})
        ELSE <<>>]

\* the number of ways to reach the total r with one choice counted by c and
\* one counted by d (the choices of c with a total in P), and these numbers
\* for every total r in R
RECURSIVE JoinAt(_, _, _, _)
JoinAt(c, d, r, P) ==
    IF P = {} THEN 0
    ELSE LET p == CHOOSE p \in P : TRUE
             q == <<r[1] - p[1], r[2] - p[2]>>
         IN  (IF q \in DOMAIN d THEN c[p] * d[q] ELSE 0) + JoinAt(c, d, r, P \ {p})
RECURSIVE JoinOver(_, _, _)
JoinOver(c, d, R) ==
    IF R = {} THEN <<>>
    ELSE LET r == CHOOSE r \in R : TRUE
         IN  (r :> JoinAt(c, d, r, DOMAIN c)) @@ JoinOver(c, d, R \ {r})
Join(c, d) ==
    JoinOver(c, d, {<<p[1] + q[1], p[2] + q[2]>> : p \in DOMAIN c, q \in DOMAIN d})

\* for the subshells from the k-th on: the number of ways to pick one
\* occupation for each, by the sums <<M_L, 2 M_S>> the picks can have
RECURSIVE WaysFrom(_, _, _)
WaysFrom(orbital_type, subshells, k) ==
    IF k > Len(subshells) THEN (<<0, 0>> :> 1)
    ELSE Join(TotalCounts[orbital_type, subshells[k][2], subshells[k][3]],
              WaysFrom(orbital_type, subshells, k + 1))

\* the number of ways in w for the sums M_L = am and M_S = ms2 / 2
Ways(w, am, ms2) == IF <<am, ms2>> \in DOMAIN w THEN w[<<am, ms2>>] ELSE 0

\* sum of l * (open places) over the subshells from the k-th on
RECURSIVE OpenAmSum(_, _, _)
OpenAmSum(orbital_type, subshells, k) ==
    IF k > Len(subshells) THEN 0
    ELSE subshells[k][2] * OpenPlaces(orbital_type, subshells[k][2], subshells[k][3])
         + OpenAmSum(orbital_type, subshells, k + 1)

\* C17: for any non-empty list of subshells (shell, l, e) of one kind, with
\* each e within its subshell's capacity, multiple_subshell_terms returns a
\* table with max_mult = 1 + sum of min(e, capacity-e) and max_am = sum of
\* l*min(e, capacity-e) whose cell (mult, am) equals the number of ways to
\* pick one occupation per subshell such that the summed M_L equals am
\* (>= 0) and the summed M_S equals (mult-1)/2 (>= 0); every such tally
\* addresses a cell inside the table.
C17_SeveralSubshells ==
    last.op = "multiple_subshell_terms" =>
        /\ last.err = "" /\ last.res # 0
        /\ LET ot == last.args[1]
               subs == last.args[2]
               t == tabs[last.res]
               arr == mem[t.table]
           IN  /\ t.max_mult = 1 + OpenSum(ot, subs, 1)
               /\ t.max_am = OpenAmSum(ot, subs, 1)
               /\ \E w \in {WaysFrom(ot, subs, 1)} :
                    /\ \A i \in 0..(t.height - 1), am \in 0..t.max_am :
                        get(arr, t.min_mult + 2 * i, am)
                            = Ways(w, am, t.min_mult + 2 * i - 1)
                    /\ \A r \in DOMAIN w :
                        (r[1] >= 0 /\ r[2] >= 0 /\ w[r] > 0) =>
                            /\ r[1] <= t.max_am
                            /\ r[2] + 1 <= t.max_mult
                            /\ (r[2] + 1 - t.min_mult) % 2 = 0

\* the table of two p subshells with one electron each has been returned:
\* 36 choices, of which the cell of the triplet with M_L = 0 holds 3
C17_Witness ==
    /\ last.op = "multiple_subshell_terms" /\ last.res # 0
    /\ last.args = <<"atomic", <<<<2, 1, 1>>, <<3, 1, 1>>>>>>
    /\ tabs[last.res].max_mult = 3 /\ tabs[last.res].max_am = 2
    /\ mem[tabs[last.res].table] = <<<<6, 4, 2>>, <<3, 2, 1>>>>

(* ------------------- claims about cleaning any table ------------------- *)
\* the table of the session has been cleaned: its class, its array (raw),
\* and the array of the table returned
CleanedOf(cls) ==
    /\ last.op = "cleaned" /\ last.res # 0
    /\ Len(tabs) = 2
    /\ tabs[1].cls = cls
Raw == mem[tabs[1].table]
Clean == mem[tabs[2].table]

\* the cell at row i, column j (from 1) of an array, 0 outside the array
Cell(arr, i, j) ==
    IF i >= 1 /\ i <= Height(arr) /\ j >= 1 /\ j <= Width(arr) THEN arr[i][j] ELSE 0

\* C21: cleaning a diatomic table works column by column: for every
\* diatomic table, the cleaned count at row i, column j equals
\* raw[i][j] - raw[i+1][j] (taking raw[i+1][j] = 0 above the top row), so it
\* never depends on any cell of another column.
C21_ColumnByColumn ==
    CleanedOf("DiatomicTermTable") =>
        /\ Height(Clean) = Height(Raw) /\ Width(Clean) = Width(Raw)
        /\ \A i \in 1..Height(Raw), j \in 1..Width(Raw) :
            Clean[i][j] = Raw[i][j] - Cell(Raw, i + 1, j)

\* a diatomic table of two rows and two columns has been cleaned: the lower
\* row lost the counts of the upper row, column by column
C21_Witness ==
    /\ CleanedOf("DiatomicTermTable")
    /\ Raw = <<<<2, -1>>, <<2, 0>>>>
    /\ Clean = <<<<0, -1>>, <<2, 0>>>>

\* the sum of the cells of an array at rows i.. and columns j..
SumFrom(arr, i, j) ==
    SumSeq([r \in 1..(Height(arr) - i + 1) |->
        SumSeq([c \in 1..(Width(arr) - j + 1) |-> arr[i + r - 1][j + c - 1]])])

\* C25: atomic cleaning is the exact inverse of the 'sum over higher cells'
\* relation: for every atomic table (any integer counts), each raw cell
\* equals the sum of the cleaned cells at row >= i and column >= j, i.e.
\* cleaned[i][j] = raw[i][j] - raw[i+1][j] - raw[i][j+1] + raw[i+1][j+1]
\* with out-of-table cells taken as 0.
C25_AtomicInverse ==
    CleanedOf("AtomicTermTable") =>
        /\ Height(Clean) = Height(Raw) /\ Width(Clean) = Width(Raw)
        /\ \A i \in 1..Height(Raw), j \in 1..Width(Raw) :
            /\ Raw[i][j] = SumFrom(Clean, i, j)
            /\ Clean[i][j] = Raw[i][j] - Cell(Raw, i + 1, j) - Cell(Raw, i, j + 1)
                             + Cell(Raw, i + 1, j + 1)

\* an atomic table of two rows and two columns with a negative count has
\* been cleaned
C25_Witness ==
    /\ CleanedOf("AtomicTermTable")
    /\ Raw = <<<<2, -1>>, <<2, 2>>>>
    /\ Clean = <<<<3, -3>>, <<0, 2>>>>

(* ------------------ claims about the shape of a table ------------------ *)
\* the largest of a non-empty set of integers
MaxOf(S) == CHOOSE x \in S : \A y \in S : y <= x

\* C22: the analytically computed table shape is exact for atomic
\* subshells: for every l and every e with 0 <= e <= 4l+2, max_am of
\* subshell_terms('atomic', shell, l, e) equals the largest total M_L
\* attained by any e-electron occupation of the subshell, and max_mult
\* equals 2*(largest total M_S attained) + 1.
C22_ExactShape ==
    (last.op = "subshell_terms" /\ last.res # 0 /\ last.args[1] = "atomic") =>
        LET tot == OccupationTotals["atomic", last.args[3], last.args[4]]
        IN  /\ tabs[last.res].max_am = MaxOf({tot[S][1] : S \in DOMAIN tot})
            /\ tabs[last.res].max_mult = MaxOf({tot[S][2] : S \in DOMAIN tot}) + 1

\* the table of the half-filled p subshell has been returned: its largest
\* M_L is 2 (not 3) and its largest M_S is 3/2
C22_Witness ==
    /\ last.op = "subshell_terms" /\ last.res # 0
    /\ last.args = <<"atomic", 2, 1, 3>>
    /\ tabs[last.res].max_am = 2
    /\ tabs[last.res].max_mult = 4

\* C23: subshell_terms never tallies outside its table: for both kinds,
\* every l and every e from 0 up to the subshell's capacity (4l+2 atomic; 2
\* or 4 diatomic), every occupation with M_L >= 0 and M_S >= 0 has
\* M_L <= max_am and 2*M_S+1 <= max_mult, so each increment addresses an
\* existing row and column and the call returns a table.
\* (for an atomic subshell the shell must host l: shell > l)
C23_TallyInside ==
    (/\ last.op = "subshell_terms"
     /\ (last.args[1] = "atomic" => last.args[2] > last.args[3])) =>
        /\ last.err = "" /\ last.res # 0
        /\ LET tot == OccupationTotals[last.args[1], last.args[3], last.args[4]]
               t == tabs[last.res]
           IN  \A S \in DOMAIN tot :
                (tot[S][1] >= 0 /\ tot[S][2] >= 0) =>
                    /\ tot[S][1] <= t.max_am
                    /\ tot[S][2] + 1 <= t.max_mult
                    /\ RowOf(tot[S][2] + 1) < Height(mem[t.table])
                    /\ tot[S][1] < Width(mem[t.table])

\* the table of three electrons in a diatomic pi subshell has been
\* returned: it has room for M_L up to 2 and multiplicity up to 4, and the
\* occupations reach M_L = 1 and multiplicity 2
C23_Witness ==
    /\ last.op = "subshell_terms" /\ last.res # 0
    /\ last.args = <<"diatomic", 1, 1, 3>>
    /\ tabs[last.res].max_am = 2 /\ tabs[last.res].max_mult = 4
    /\ mem[tabs[last.res].table] = <<<<0, 1, 0>>, <<0, 0, 0>>>>

\* the multiplicities of the rows of a table
Mults(t) == {m \in t.min_mult..t.max_mult : (m - t.min_mult) % 2 = 0}

\* every table has rows for the multiplicities of the parity of max_mult
RowsOk ==
    \A i \in 1..Len(tabs) :
        /\ tabs[i].min_mult \in {1, 2}
        /\ (tabs[i].max_mult - tabs[i].min_mult) % 2 = 0
        /\ tabs[i].height = Cardinality(Mults(tabs[i]))
        /\ Height(mem[tabs[i].table]) = tabs[i].height

\* the occupations a call of subshell_terms or multiple_subshell_terms
\* tallied have multiplicities of the parity of the table's max_mult
ParityOk ==
    /\ (last.op = "subshell_terms" /\ last.res # 0) =>
        LET tot == OccupationTotals[last.args[1], last.args[3], last.args[4]]
        IN  \A S \in DOMAIN tot :
                (tot[S][1] >= 0 /\ tot[S][2] >= 0) =>
                    (tabs[last.res].max_mult - (tot[S][2] + 1)) % 2 = 0
    /\ (last.op = "multiple_subshell_terms" /\ last.res # 0) =>
        \E w \in {WaysFrom(last.args[1], last.args[2], 1)} :
            \A r \in DOMAIN w :
                (r[1] >= 0 /\ r[2] >= 0 /\ w[r] > 0) =>
                    (tabs[last.res].max_mult - (r[2] + 1)) % 2 = 0

\* a step that calls get, set, add or increment at a multiplicity and an am
\* of the table reads or writes the cell of row i, where the multiplicity
\* is min_mult + 2 i, and of column am, and no other
EditOk ==
    (/\ last'.op \in {"get", "set", "add", "increment"}
     /\ last'.args[2] \in Mults(tabs[last'.args[1]])
     /\ last'.args[3] \in 0..tabs[last'.args[1]].max_am) =>
        LET t == tabs[last'.args[1]]
            row == ((last'.args[2] - t.min_mult) \div 2) + 1
            col == last'.args[3] + 1
            old == mem[t.table]
        IN  /\ last'.err = ""
            /\ last'.op = "get" =>
                mem' = mem /\ out'[Len(out')].val = old[row][col]
            /\ last'.op = "set" =>
                mem' = [mem EXCEPT ![t.table] = [old EXCEPT ![row][col] = last'.args[4]]]
            /\ last'.op = "add" =>
                mem' = [mem EXCEPT ![t.table] =
                            [old EXCEPT ![row][col] = old[row][col] + last'.args[4]]]
            /\ last'.op = "increment" =>
                mem' = [mem EXCEPT ![t.table] = [old EXCEPT ![row][col] = old[row][col] + 1]]

\* C24: row/multiplicity invariant: in every table min_mult is 1 or 2 and
\* has the same parity as max_mult, the number of rows equals the number of
\* multiplicities min_mult, min_mult+2, ..., max_mult, get/set/add/increment
\* at multiplicity min_mult+2i address row i, and every occupation tallied
\* by subshell_terms or multiple_subshell_terms has a multiplicity of the
\* same parity as the table's max_mult.
C24_Rows == []RowsOk /\ []ParityOk /\ [][EditOk]_vars

\* the quartet of the half-filled p subshell, in the second row of a table
\* whose rows are the multiplicities 2 and 4, has been incremented from 1
C24_Witness ==
    /\ last.op = "increment" /\ last.err = ""
    /\ last.args = <<1, 4, 0>>
    /\ tabs[1].min_mult = 2 /\ tabs[1].max_mult = 4
    /\ tabs[1].orbital_type = "atomic"
    /\ mem[tabs[1].table][2][1] = 2

(* ------------------- claims about the terms of a table ----------------- *)
\* num_microstates of the term (mult, am) of each cell, times its count,
\* summed over the table
TableMicrostates(t, arr) ==
    SumSeq([i \in 1..Height(arr) |->
        SumSeq([j \in 1..Width(arr) |->
            arr[i][j] * num_microstates([mult |-> t.min_mult + 2 * (i - 1),
                                         am |-> j - 1])])])

\* C26: microstate conservation: for every atomic subshell l and electron
\* count e with 0 <= e <= 4l+2, the sum over all cells (mult, am) of
\* subshell_terms('atomic', shell, l, e).cleaned() of
\* count * mult * (2*am + 1) (the term's num_microstates) equals
\* C(4l+2, e), the number of occupations.
C26_Microstates ==
    \A g \in 1..2 :
        (/\ last.op = "cleaned" /\ last.res # 0 /\ last.args[1] = 2 * g - 1
         /\ given[g].orbital_type = "atomic") =>
            TableMicrostates(tabs[last.res], mem[tabs[last.res].table])
                = Binomial(4 * given[g].l + 2, given[g].e_num)

\* the table of the atomic p2 subshell has been cleaned to 1S, 1D and 3P:
\* 1 + 5 + 9 microstates for its 15 occupations
C26_Witness ==
    /\ last.op = "cleaned" /\ last.res # 0 /\ last.args[1] = 1
    /\ given[1].orbital_type = "atomic" /\ given[1].l = 1 /\ given[1].e_num = 2
    /\ mem[tabs[last.res].table] = <<<<1, 0, 1>>, <<0, 1, 0>>>>
    /\ TableMicrostates(tabs[last.res], mem[tabs[last.res].table]) = 15

(* ------------------------ claims about the product --------------------- *)
\* the product o * self of the operands of the last call, taken the other
\* way round
Swapped ==
    TermTable_mul(tabs[last.args[2].val], mem[tabs[last.args[2].val].table],
                  tabs[last.args[1]], mem[tabs[last.args[1]].table])

\* C27: the table product is commutative: for any two cleaned tables A and
\* B of the same kind for which both products complete, A*B and B*A have
\* the same max_mult, the same max_am and the same count in every cell.
C27_Commutative ==
    (CleanedProduct /\ last.res # 0 /\ Swapped.err = "") =>
        /\ Swapped.obj.max_mult = tabs[last.res].max_mult
        /\ Swapped.obj.max_am = tabs[last.res].max_am
        /\ Swapped.arr = mem[tabs[last.res].table]

\* tabs[i].cleaned() returns a table: the class of tabs[i] overrides the
\* cleaned() of TermTable, whose body is `pass`
CleanedReturnsTable(i) == tabs[i].cls # "TermTable"

\* C28: the product of two tables of kind K (atomic or diatomic) is itself
\* a table of kind K: it carries orbital_type K, its cleaned() returns a
\* table, and it can be multiplied again by another table of kind K
\* without a type-compatibility error.
C28_ProductKind ==
    (/\ last.op = "__mul__" /\ last.res # 0
     /\ tabs[last.args[1]].orbital_type = tabs[last.args[2].val].orbital_type) =>
        /\ tabs[last.res].orbital_type = tabs[last.args[1]].orbital_type
        /\ CleanedReturnsTable(last.res)
        /\ \A k \in 1..Len(tabs) :
             tabs[k].orbital_type = tabs[last.args[1]].orbital_type =>
                 ~MulTypeError(tabs[last.res], tabs[k])

(* --------------------- claims about a single subshell ------------------ *)
\* subshell_terms(kind, shell, l, e) for the one subshell the last call of
\* multiple_subshell_terms was given
SingleSubshell ==
    subshell_terms(last.args[1], last.args[2][1][1], last.args[2][1][2],
                   last.args[2][1][3])

\* C29: single-subshell consistency: for every kind, l and e within
\* capacity, multiple_subshell_terms(kind, (shell, l, e)) given exactly one
\* subshell returns a table equal to subshell_terms(kind, shell, l, e),
\* i.e. the same max_mult, the same max_am and the same counts.
C29_SingleSubshell ==
    (/\ last.op = "multiple_subshell_terms" /\ last.res # 0
     /\ Len(last.args[2]) = 1) =>
        /\ SingleSubshell.err = ""
        /\ SingleSubshell.obj.max_mult = tabs[last.res].max_mult
        /\ SingleSubshell.obj.max_am = tabs[last.res].max_am
        /\ SingleSubshell.arr = mem[tabs[last.res].table]

(* ----------------------- claims about term symbols --------------------- *)
\* the term symbol the session made, and the J states listed from it
Term == out[1].val
JStates == out[2].val

\* |x|
Magnitude(x) == IF x < 0 THEN -x ELSE x

\* C30: for a term symbol with multiplicity mult (spin S = (mult-1)/2) and
\* angular momentum L, form_jstates yields exactly one spin-orbit term
\* symbol for each J in |L - S|, |L - S|+1, ..., L + S and no other, i.e.
\* min(2S+1, 2L+1) states, each keeping the original mult and L.  (J, L and
\* S are compared in halves.)
C30_JStates ==
    (last.op = "form_jstates") =>
        LET lo == Magnitude(2 * Term.am - (Term.mult - 1))
            hi == 2 * Term.am + (Term.mult - 1)
            Js == {lo + 2 * k : k \in 0..((hi - lo) \div 2)}
        IN  /\ last.err = ""
            /\ {JStates[k].j.val : k \in 1..Len(JStates)} = Js
            /\ Len(JStates) = Cardinality(Js)
            /\ Len(JStates) = IF Term.mult < 2 * Term.am + 1
                               THEN Term.mult ELSE 2 * Term.am + 1
            /\ \A k \in 1..Len(JStates) :
                 /\ JStates[k].mult = Term.mult
                 /\ JStates[k].am = Term.am

====
